---- MODULE Spec2Model ----
(***************************************************************************)
(* A model of ParticleCanvas (the per-frame video-to-particle renderer and *)
(* its requestAnimationFrame loop) and of the App state that feeds it.     *)
(*                                                                         *)
(* Numbers.  JavaScript numbers are modelled in fixed point:               *)
(*   - lengths and positions in 1/1000 px, colours in 1/1000 degree and    *)
(*     1/1000 percent, times in ms;                                        *)
(*   - settings.pixelSize in 1/10 px and settings.density in 1/100, so     *)
(*     that Math.floor and the "< 1.0" test have something to do;          *)
(*   - the audio level is the exact fraction sum / (128 * 255) and the     *)
(*     beat the exact fraction k^3 / 8^3 for the sums 510 * k^2;           *)
(*   - the gate decisions (density, threshold) are exact comparisons.      *)
(***************************************************************************)
EXTENDS Integers, Sequences, FiniteSets, TLC

VARIABLES
    gridSettings,       \* App: the settings prop handed to this canvas
    isPlaying,          \* App: the isPlaying prop
    analyser,           \* App: analyserRef.current is an AnalyserNode
    bgReady,            \* the background video is ready (readyState >= 2, src set)
    camReady,           \* the webcam video is ready (srcObject set, readyState >= 2)
    container,          \* <<clientWidth, clientHeight>> of the container div
    canvas,             \* <<width, height>> of the output canvas
    mounted,            \* the component is mounted
    loop,               \* the closure of the effect that ran last
    listeners,          \* loops whose handleResize listens to window resize
    pending,            \* the requestAnimationFrame callbacks not yet run
    animationFrameRef,  \* animationFrameRef.current (0 is null)
    nextHandle,         \* the next handle requestAnimationFrame returns
    now,                \* the clock, in ms
    ticks,              \* render invocations so far
    analysis,           \* the analysis canvas: [w, h, data]
    surface,            \* the draw commands on the output canvas since its last clear
    ctx,                \* the drawing state of the output canvas' 2d context
    last,               \* what the latest render invocation did
    probe,              \* a call of a pure function made on its own
    layout,             \* App: [rows, cols]
    uiGridDim,          \* App: the grid size the panel shows selected (0: none)
    panelSettings,      \* App: gridSettings, the array of per-panel settings
    isFaceGridMode,     \* App
    isAutoLayout,       \* App
    screenEffect,       \* App
    layoutStage,        \* App
    layoutSeed,         \* App
    mediaStream,        \* App: a webcam stream is held
    faceDetector,       \* App: faceDetectorRef.current is a detector
    faceInterval,       \* App: the interval of the face detection loop is set
    sequencer,          \* App: the interval of the layout sequencer is set
    webcamRequests,     \* App: getUserMedia({video}) calls not yet settled
    appLast             \* what the latest App step did

vars == <<gridSettings, isPlaying, analyser, bgReady, camReady, container, canvas,
          mounted, loop, listeners, pending, animationFrameRef, nextHandle,
          now, ticks, analysis, surface, ctx, last, probe,
          layout, uiGridDim, panelSettings, isFaceGridMode, isAutoLayout,
          screenEffect, layoutStage, layoutSeed, mediaStream, faceDetector,
          faceInterval, sequencer, webcamRequests, appLast>>

(* the state of App *)
appVars == <<layout, uiGridDim, panelSettings, isFaceGridMode, isAutoLayout,
             screenEffect, layoutStage, layoutSeed, mediaStream, faceDetector,
             faceInterval, sequencer, webcamRequests, appLast>>

(* the state of one ParticleCanvas and of what it reads *)
canvasVars == <<gridSettings, isPlaying, analyser, bgReady, camReady, container, canvas,
                mounted, loop, listeners, pending, animationFrameRef, nextHandle,
                now, ticks, analysis, surface, ctx, last, probe>>

----------------------------------------------------------------------------
(* Bounds of the model *)

MaxTicks == 2
MaxLoops == 2

(* Program constants *)

AudioBins == 128
MinPixelSize == 2
GapPx == 1
MinFontPx == 4

ByteMax == 256 - 1
LevelDen == AudioBins * ByteMax     \* audioLevel = sum / LevelDen
BeatDen == 8 * 8 * 8                \* beat = Beat(sum) / BeatDen
Milli == 10 * 10 * 10

Max2(a, b) == IF a >= b THEN a ELSE b
Min2(a, b) == IF a <= b THEN a ELSE b
Abs(a) == IF a < 0 THEN 0 - a ELSE a

----------------------------------------------------------------------------
(* types.ts *)

ColorModes == {"natural", "grayscale", "cyber", "heat", "matrix"}
Shapes == {"circle", "square", "cross", "char", "matrix", "blocks", "ascii", "geometric"}
AnimationModes == {"none", "wave", "ripple", "scan", "jitter"}

DEFAULT_SETTINGS ==
    [pixelSize |-> 80, threshold |-> 20, density |-> 100, colorMode |-> "natural",
     hueShift |-> 0, shape |-> "matrix", animationMode |-> "wave", glow |-> 0]

(* CHAR_SETS: the glyphs of a set are its indices 0 .. length-1 *)
CharsetLen(shape) ==
    CASE shape = "char" -> 2
      [] shape = "matrix" -> 41
      [] shape = "blocks" -> 5
      [] shape = "ascii" -> 10
      [] shape = "geometric" -> 5
      [] OTHER -> 2

IsTextShape(shape) == shape \in {"char", "matrix", "blocks", "ascii", "geometric"}

----------------------------------------------------------------------------
(* rgbToHsl: h in 1/1000 degree, s and l in 1/1000 percent *)

Max3(a, b, c) == Max2(a, Max2(b, c))
Min3(a, b, c) == Min2(a, Min2(b, c))

(* the hue without the turn added when g < b *)
HueNumeratorNoWrap(r, g, b, mx, d) ==
    IF mx = r THEN g - b
    ELSE IF mx = g THEN (b - r) + 2 * d
    ELSE (r - g) + 4 * d

HueNumerator(r, g, b, mx, d) ==
    IF mx = r THEN (g - b) + (IF g < b THEN 6 * d ELSE 0)
    ELSE IF mx = g THEN (b - r) + 2 * d
    ELSE (r - g) + 4 * d

rgbToHsl(r, g, b) ==
    LET mx == Max3(r, g, b)
        mn == Min3(r, g, b)
        l  == ((mx + mn) * 100 * Milli) \div (2 * ByteMax)
        d  == mx - mn
    IN  IF mx = mn
        THEN [h |-> 0, s |-> 0, l |-> l]
        ELSE [h |-> (HueNumerator(r, g, b, mx, d) * 60 * Milli) \div d,
              s |-> IF mx + mn > ByteMax
                    THEN (d * 100 * Milli) \div (2 * ByteMax - mx - mn)
                    ELSE (d * 100 * Milli) \div (mx + mn),
              l |-> l]

----------------------------------------------------------------------------
(* Audio analysis *)

(* Math.pow(audioLevel, 1.5) as a numerator over BeatDen: the audio sums of
   the model are 510 * k^2, that is level = (k/8)^2 and beat = (k/8)^3. *)
Beat(sum) ==
    LET k == CHOOSE j \in 0..8 : (LevelDen \div 64) * j * j = sum
    IN  k * k * k

BeatOver(sum, num, den) == Beat(sum) * den > BeatDen * num   \* beat > num/den

(* x * beat, floored, for x in 1/1000 units *)
TimesBeat(x, sum) == (x * Beat(sum)) \div BeatDen

(* dynamicGlow = settings.glow + audioLevel * 20, in 1/1000 px *)
DynamicGlow(s, sum) == s.glow * Milli + (20 * Milli * sum) \div LevelDen

----------------------------------------------------------------------------
(* The gates of a cell *)

(* floor(1e6 * fract(|sin(col * 12.9898 + row * 78.233) * 43758.5453|)),
   as IEEE double arithmetic gives it, for col, row in 0..7 *)
HashTable ==
    << <<0, 921690, 57218, 558222, 373733, 453479, 626086, 165580>>,
       <<182916, 259915, 435604, 545250, 727599, 176551, 247157, 496244>>,
       <<972895, 926095, 364232, 335201, 940776, 537859, 568752, 566518>>,
       <<269435, 419900, 296471, 96707, 382242, 93530, 311915, 879058>>,
       <<788580, 174591, 461331, 34331, 107046, 267188, 974140, 428010>>,
       <<56142, 155711, 111516, 810257, 801088, 812151, 319728, 68441>>,
       <<25053, 184177, 964233, 977313, 177456, 85811, 259788, 142715>>,
       <<122186, 107687, 904258, 541490, 790921, 378855, 253886, 942924>> >>

RandomVal(col, row) == HashTable[row + 1][col + 1]

(* a density check that moves with the clock *)
DensityKeepFlicker(s, col, row) ==
    ~(s.density < 100 /\ RandomVal((col + now \div 100) % 8, row) > s.density * 10 * Milli)

(* a density check on the density wrapped into (0, 1] *)
DensityKeepWrapped(s, col, row) ==
    ~(RandomVal(col, row) > (((s.density - 1) % 100) + 1) * 10 * Milli)

(* the cell survives the density check: not (density < 1.0 and randomVal > density) *)
DensityKeep(s, col, row) ==
    ~(s.density < 100 /\ RandomVal(col, row) > s.density * 10 * Milli)

(* the threshold without Math.max(0, ...) *)
EffectiveThresholdUnclamped(s, sum) == s.threshold * LevelDen - 50 * sum

(* effectiveThreshold = max(0, threshold - audioLevel * 50), in 1/LevelDen *)
EffectiveThreshold(s, sum) == Max2(0, s.threshold * LevelDen - 50 * sum)

(* the threshold check with >= for > *)
BrightEnoughOrEqual(s, sum, r, g, b) ==
    (r + g + b) * LevelDen >= 3 * EffectiveThreshold(s, sum)

(* the check left out when settings.threshold is 0 *)
BrightEnoughOrNoThreshold(s, sum, r, g, b) ==
    s.threshold = 0 \/ (r + g + b) * LevelDen > 3 * EffectiveThreshold(s, sum)

(* brightness > effectiveThreshold, with brightness = (r + g + b) / 3 *)
BrightEnough(s, sum, r, g, b) ==
    (r + g + b) * LevelDen > 3 * EffectiveThreshold(s, sum)

(* pixelSize = Math.max(2, Math.floor(settings.pixelSize)), in px *)
PixelSize(s) == Max2(MinPixelSize, s.pixelSize \div 10)

CeilDiv(a, b) == (a + b - 1) \div b

(* Math.floor for Math.ceil *)
GridColsFloor(w, ps) == w \div ps

GridCols(w, ps) == CeilDiv(w, ps)
GridRows(h, ps) == CeilDiv(h, ps)

----------------------------------------------------------------------------
(* Math.sin, Math.cos(Math.atan2()), Math.sqrt and Math.random in fixed point *)

(* 1000 * sin(a) for a in 1/1000 rad (Bhaskara's approximation on [0, pi]) *)
HalfSin(a) ==
    LET p == (a * (3142 - a)) \div 100
    IN  (16 * Milli * p) \div (493480 - 4 * p)

Sin(a) ==
    LET m == a % 6284
    IN  IF m <= 3142 THEN HalfSin(m) ELSE 0 - HalfSin(m - 3142)

RECURSIVE SqrtBetween(_, _, _)
SqrtBetween(n, lo, hi) ==
    IF lo >= hi THEN lo
    ELSE LET mid == (lo + hi + 1) \div 2
         IN  IF mid * mid <= n THEN SqrtBetween(n, mid, hi)
             ELSE SqrtBetween(n, lo, mid - 1)

Sqrt(n) == SqrtBetween(n, 0, Min2(n, 40000))

(* a direction that vanishes at the origin *)
CosAtan2NoneAtOrigin(dy, dx) ==
    IF dx = 0 /\ dy = 0 THEN 0
    ELSE (dx * Milli) \div Max2(1, Sqrt(dx * dx + dy * dy))

(* 1000 * cos(atan2(dy, dx)) and 1000 * sin(atan2(dy, dx)); atan2(0, 0) = 0 *)
CosAtan2(dy, dx) ==
    IF dx = 0 /\ dy = 0 THEN Milli
    ELSE (dx * Milli) \div Max2(1, Sqrt(dx * dx + dy * dy))

SinAtan2(dy, dx) ==
    IF dx = 0 /\ dy = 0 THEN 0
    ELSE (dy * Milli) \div Max2(1, Sqrt(dx * dx + dy * dy))

(* The values Math.random() returns in one frame, in 1/1000: the n-th call of
   the frame returns Random(rs, n) of the stream rs the host happens to give *)
RandomStreams == << <<0, 999, 250>>, <<750, 500, 501>> >>

Random(rs, n) == RandomStreams[rs][((n - 1) % Len(RandomStreams[rs])) + 1]

----------------------------------------------------------------------------
(* Animation: the position of a cell, in 1/1000 px.  fc is the frame:
   [s, w, h, pixelSize, cols, data, elapsed, time, sum, rs] *)

(* the animation clock taken from the callback's time, not from elapsed *)
AudioTimeOfRawTime(fc) == (fc.time * (BeatDen + 2 * Beat(fc.sum))) \div BeatDen

AudioTime(fc) == (fc.elapsed * (BeatDen + 2 * Beat(fc.sum))) \div BeatDen

(* [x, y, calls]: the position and the number of Math.random() calls made *)
Animate(fc, x, y, calls) ==
    LET mode == fc.s.animationMode
        same == [x |-> x, y |-> y, calls |-> calls]
    IN  CASE mode = "wave" ->
               [same EXCEPT !.y = y + (Sin(x \div 50 + AudioTime(fc) \div 2)
                                       * (20 * Milli + TimesBeat(20 * Milli, fc.sum)))
                                      \div Milli]
          [] mode = "ripple" ->
               LET centerX == fc.w * 500
                   centerY == fc.h * 500
                   dx      == (x - centerX) \div 100
                   dy      == (y - centerY) \div 100
                   dist    == Sqrt(dx * dx + dy * dy)         \* in 1/10 px
                   offset  == (Sin(2 * dist - (3 * AudioTime(fc)) \div 2)
                               * (15 * Milli + TimesBeat(15 * Milli, fc.sum)))
                              \div Milli
                   x1      == x + (CosAtan2(dy, dx) * offset) \div Milli
                   dx1     == (x1 - centerX) \div 100
               IN  [x |-> x1,
                    y |-> y + (SinAtan2(dy, dx1) * offset) \div Milli,
                    calls |-> calls]
          [] mode = "jitter" ->
               LET jitterAmount == 4 * Milli + (10 * Milli * fc.sum) \div LevelDen
               IN  [x |-> x + ((Random(fc.rs, calls + 1) - 500) * jitterAmount) \div Milli,
                    y |-> y + ((Random(fc.rs, calls + 2) - 500) * jitterAmount) \div Milli,
                    calls |-> calls + 2]
          [] mode = "scan" ->
               LET scanPos == ((fc.elapsed * 50) % ((fc.h + 100) * Milli)) - 50 * Milli
               IN  IF Abs(y - scanPos) < 40 * Milli + TimesBeat(50 * Milli, fc.sum)
                   THEN [x |-> x + (Random(fc.rs, calls + 1) - 500) * 15,
                         y |-> y, calls |-> calls + 1]
                   ELSE same
          [] OTHER -> same

----------------------------------------------------------------------------
(* Colour: fillStyle as [h, s, l] *)

(* the colour without the case for 'matrix': every mode as the default *)
FillStyleByDefault(s, sum, r, g, b) ==
    LET hsl == rgbToHsl(r, g, b)
    IN  [h |-> (hsl.h + s.hueShift * Milli) % (360 * Milli),
         s |-> hsl.s,
         l |-> Min2(100 * Milli, hsl.l + TimesBeat(10 * Milli, sum))]

FillStyle(s, sum, r, g, b) ==
    LET hsl       == rgbToHsl(r, g, b)
        lightness == hsl.l
        mode      == s.colorMode
        shift     == s.hueShift * Milli
        full      == 100 * Milli
        turn      == 360 * Milli
    IN  CASE mode = "grayscale" -> [h |-> 0, s |-> 0, l |-> lightness]
          [] mode = "cyber" ->
               [h |-> (180 * Milli + lightness \div 2 + shift
                       + TimesBeat(30 * Milli, sum)) % turn,
                s |-> 80 * Milli,
                l |-> Min2(full, lightness + 20 * Milli + TimesBeat(20 * Milli, sum))]
          [] mode = "heat" ->
               [h |-> (270 * Milli + (lightness * 3) \div 2 + shift
                       + TimesBeat(60 * Milli, sum)) % turn,
                s |-> full,
                l |-> lightness + TimesBeat(10 * Milli, sum)]
          [] mode = "matrix" ->
               [h |-> (120 * Milli + shift) % turn,
                s |-> full,
                l |-> Min2(full, (lightness * 3) \div 2 + TimesBeat(30 * Milli, sum))]
          [] OTHER ->
               [h |-> (hsl.h + shift) % turn,
                s |-> hsl.s,
                l |-> Min2(full, hsl.l + TimesBeat(10 * Milli, sum))]

NoColor == [h |-> 0 - 1, s |-> 0 - 1, l |-> 0 - 1]    \* a colour never set by render

----------------------------------------------------------------------------
(* Glyphs *)

(* Math.round for Math.floor *)
RoundOfBrightness(sum, m) == (2 * sum * m + 3 * ByteMax) \div (6 * ByteMax)

(* Math.floor(((r + g + b) / 3 / 255) * m) as IEEE double arithmetic gives
   it for m in {2, 4, 9}: the exact floor, but for the sum 425 with m = 9,
   where the product is 4.999... *)
FloorOfBrightness(sum, m) ==
    IF m = 9 /\ sum = 425 THEN 4 ELSE (sum * m) \div (3 * ByteMax)

(* every glyph set indexed as the binary default: brightness over the length *)
CharIndexByLength(fc, col, row, r, g, b, calls) ==
    [index |-> ((r + g + b) * CharsetLen(fc.s.shape)) \div (3 * ByteMax), calls |-> calls]

(* the bump of the beat added without Math.min *)
CharIndexUnclamped(fc, col, row, r, g, b, calls) ==
    [index |-> FloorOfBrightness(r + g + b, CharsetLen(fc.s.shape) - 1)
               + (IF BeatOver(fc.sum, 1, 10) THEN (2 * Beat(fc.sum)) \div BeatDen ELSE 0),
     calls |-> calls]

(* [index, calls]: charIndex before the final "% length", and the number of
   Math.random() calls made *)
CharIndex(fc, col, row, r, g, b, calls) ==
    LET shape == fc.s.shape
        len   == CharsetLen(shape)
    IN  CASE shape \in {"blocks", "ascii"} ->
               LET base == FloorOfBrightness(r + g + b, len - 1)
               IN  [index |-> IF BeatOver(fc.sum, 1, 10)
                              THEN Min2(len - 1, base + (2 * Beat(fc.sum)) \div BeatDen)
                              ELSE base,
                    calls |-> calls]
          [] shape = "matrix" ->
               LET timeSeed == fc.time \div 200
                   fastSeed == fc.time \div 20
                   seed     == IF BeatOver(fc.sum, 2, 10) THEN fastSeed ELSE timeSeed
               IN  [index |-> (col + row * 13 + seed) % len, calls |-> calls]
          [] shape = "geometric" ->
               LET base == (col * 3 + row * 7) % len
               IN  IF BeatOver(fc.sum, 2, 10)
                   THEN [index |-> IF Random(fc.rs, calls + 1) > 500
                                   THEN (base + 1) % len ELSE base,
                         calls |-> calls + 1]
                   ELSE [index |-> base, calls |-> calls]
          [] OTHER ->
               [index |-> FloorOfBrightness(r + g + b, len), calls |-> calls]

(* ctx.font of a frame with a text shape, in 1/1000 px *)
FontSize(fc) == Max2(MinFontPx * Milli, fc.pixelSize * 900 + TimesBeat(2 * Milli, fc.sum))

----------------------------------------------------------------------------
(* Composition step: the analysis canvas after fillRect / drawImage / drawImage *)

(* The colours a downsampled video frame is made of, and the frames: frame v
   of a video shows VideoPixel(v, col, row) at cell (col, row) *)
Palette == << <<0, 0, 0>>, <<20, 20, 20>>, <<255, 0, 0>>, <<255, 255, 255>> >>

(* the frames 2, 3, ... of a video show one colour all over *)
Tints ==
    << <<0, 0, 0>>, <<1, 1, 1>>, <<63, 63, 63>>, <<64, 64, 64>>, <<127, 127, 127>>,
       <<128, 128, 128>>, <<254, 254, 254>>, <<255, 255, 255>>, <<255, 0, 0>>,
       <<0, 255, 0>>, <<0, 0, 255>>, <<255, 255, 0>>, <<10, 200, 30>>,
       <<254, 255, 255>>, <<3, 2, 1>> >>

VideoPixel(v, col, row) ==
    IF v < 2 THEN Palette[((v * (col + 2 * row + 1)) % Len(Palette)) + 1]
    ELSE Tints[v - 1]

(* globalCompositeOperation = 'screen', per channel *)
Screen(a, b) == ByteMax - ((ByteMax - a) * (ByteMax - b) + ByteMax \div 2) \div ByteMax

ComposedPixel(cols, col, row, bg, cam, bgOn, camOn) ==
    LET base == IF bgOn THEN VideoPixel(bg, col, row) ELSE <<0, 0, 0>>
        top  == VideoPixel(cam, cols - 1 - col, row)       \* mirrored
    IN  IF camOn
        THEN <<Screen(base[1], top[1]), Screen(base[2], top[2]), Screen(base[3], top[3])>>
        ELSE base

(* getImageData(0, 0, cols, rows).data: 4 bytes a pixel, row by row *)
ImageData(cols, rows, bg, cam, bgOn, camOn) ==
    [n \in 1..(4 * cols * rows) |->
        LET q   == (n - 1) \div 4
            px  == ComposedPixel(cols, q % cols, q \div cols, bg, cam, bgOn, camOn)
            ch  == (n - 1) % 4
        IN  IF ch = 3 THEN ByteMax ELSE px[ch + 1]]

----------------------------------------------------------------------------
(* The grid iteration.  st is the state threaded through the cells:
   [cmds, ctx, calls, visited, used, kept, effective]: the draw commands, the
   context state, the Math.random() calls made, and what the loop read *)

Stride == 4

(* the column taken from the row count *)
CellColByRows(fc, i) == (i \div Stride) \div fc.rows

CellCol(fc, i) == (i \div Stride) % fc.cols
CellRow(fc, i) == (i \div Stride) \div fc.cols

(* the render size without the 0.8 of the drawn shapes *)
RenderSizeOfText(fc, r, g, b) ==
    fc.pixelSize * 1000
    + ((r + g + b) * Beat(fc.sum) * fc.pixelSize * 25) \div ((3 * ByteMax * BeatDen) \div 40)

(* renderSize = pixelSize * (isTextShape ? 1 : 0.8) + audioSizeBoost *)
RenderSize(fc, r, g, b) ==
    fc.pixelSize * (IF IsTextShape(fc.s.shape) THEN 1000 ELSE 800)
    + ((r + g + b) * Beat(fc.sum) * fc.pixelSize * 25) \div ((3 * ByteMax * BeatDen) \div 40)

(* the draw call of a cell at (x, y), with the context state c in force *)
DrawShape(fc, col, row, x, y, r, g, b, c, calls) ==
    LET shape      == fc.s.shape
        renderSize == RenderSize(fc, r, g, b)
        blank      == [op |-> "", frame |-> fc.time, col |-> col, row |-> row,
                       x |-> x, y |-> y,
                       size |-> 0, glyph |-> 0 - 1, font |-> 0,
                       fill |-> c.fillStyle, stroke |-> c.strokeStyle,
                       lineWidth |-> c.lineWidth,
                       blur |-> c.shadowBlur, blurColor |-> c.shadowColor]
    IN  IF IsTextShape(shape)
        THEN LET ci == CharIndex(fc, col, row, r, g, b, calls)
             IN  [cmd |-> [blank EXCEPT !.op = "fillText",
                                        !.glyph = ci.index % CharsetLen(shape),
                                        !.font = c.font],
                  ctx |-> c, calls |-> ci.calls]
        ELSE IF shape = "square"
        THEN [cmd |-> [blank EXCEPT !.op = "fillRect",
                                    !.x = x - renderSize \div 2 + GapPx * Milli,
                                    !.y = y - renderSize \div 2 + GapPx * Milli,
                                    !.size = renderSize - GapPx * 2 * Milli],
              ctx |-> c, calls |-> calls]
        ELSE IF shape = "cross"
        THEN LET c2 == [c EXCEPT !.strokeStyle = c.fillStyle,
                                 !.lineWidth = Max2(Milli, renderSize \div 8)]
             IN  [cmd |-> [blank EXCEPT !.op = "stroke", !.size = renderSize \div 3,
                                        !.stroke = c2.strokeStyle,
                                        !.lineWidth = c2.lineWidth],
                  ctx |-> c2, calls |-> calls]
        ELSE [cmd |-> [blank EXCEPT !.op = "arc", !.size = (renderSize * 2) \div 5],
              ctx |-> c, calls |-> calls]

(* the glow without its else branch: the blur stays as it was *)
ApplyGlowNoReset(c, fill, glow) ==
    IF glow > 0
    THEN [c EXCEPT !.fillStyle = fill, !.shadowBlur = glow, !.shadowColor = fill]
    ELSE [c EXCEPT !.fillStyle = fill]

(* ctx.fillStyle = fillStyle, then the glow effect *)
ApplyGlow(c, fill, glow) ==
    IF glow > 0
    THEN [c EXCEPT !.fillStyle = fill, !.shadowBlur = glow, !.shadowColor = fill]
    ELSE [c EXCEPT !.fillStyle = fill, !.shadowBlur = 0]

(* the body of the loop for the byte offset i *)
Cell(fc, i, st) ==
    LET col  == CellCol(fc, i)
        row  == CellRow(fc, i)
        r    == fc.data[i + 1]
        g    == fc.data[i + 2]
        b    == fc.data[i + 3]
        seen == [st EXCEPT !.visited = Append(st.visited, <<col, row>>),
                           !.used = st.used \cup {fc.s}]
        gated == [seen EXCEPT !.kept = seen.kept \cup {<<col, row>>},
                              !.effective = seen.effective
                                              \cup {EffectiveThreshold(fc.s, fc.sum)}]
    IN  IF ~DensityKeep(fc.s, col, row) THEN seen
        ELSE IF ~BrightEnough(fc.s, fc.sum, r, g, b) THEN gated
        ELSE LET pos   == CHOOSE v \in {Animate(fc,
                                  col * fc.pixelSize * Milli + fc.pixelSize * 500,
                                  row * fc.pixelSize * Milli + fc.pixelSize * 500,
                                  st.calls)} : TRUE
                 fill  == CHOOSE v \in {FillStyle(fc.s, fc.sum, r, g, b)} : TRUE
                 c1    == ApplyGlow(st.ctx, fill, DynamicGlow(fc.s, fc.sum))
                 drawn == CHOOSE v \in {DrawShape(fc, col, row, pos.x, pos.y,
                                                  r, g, b, c1, pos.calls)} : TRUE
             IN  [gated EXCEPT !.cmds = Append(st.cmds, drawn.cmd), !.ctx = drawn.ctx,
                               !.calls = drawn.calls]

(* for (let i = 0; i < data.length; i += 4) *)
RECURSIVE Iterate(_, _, _)
Iterate(fc, i, st) ==
    IF i < Len(fc.data)
    THEN CHOOSE end \in {Iterate(fc, i + Stride, next) : next \in {Cell(fc, i, st)}} : TRUE
    ELSE st

----------------------------------------------------------------------------
(* The inputs of the model *)

ContainerSizes == {<<16, 8>>, <<12, 16>>}      \* client sizes of the container, px
Scenes == {0, 1}                                \* the frames a video can show
AudioSums == {0, 32640}                         \* all bins 0 (level 0), all bins 255 (level 1)
TimeSteps == {100}                              \* ms between two callbacks
StreamIds == 1..Len(RandomStreams)

(* the values the Controls panel is moved to *)
Choices == [pixelSize |-> {40}, density |-> {50}]

(* the frame calls Math.random() *)
UsesRandom(s) == s.animationMode \in {"jitter", "scan"} \/ s.shape = "geometric"

----------------------------------------------------------------------------
(* App: the layout, the per-panel settings and the two layout modes.  A
   handler is taken with the effects its state changes make run. In an
   entry of the array hueShift is in 1/1000 degree and the offsets are in
   1/1000 px *)

MaxFaces == 5                                   \* faces a detection reports
MaxRequests == 1                                \* getUserMedia calls in flight

GridOptions == {1, 2, 4, 8}
ScreenEffects == {"grid", "focus", "random", "drift", "pan"}
EffectChoices == {"grid", "drift"}              \* the effects the panel is set to

APP_DEFAULT_SETTINGS == DEFAULT_SETTINGS @@ [offsetX |-> 0, offsetY |-> 0]

(* Math.ceil(Math.sqrt(count)) *)
CeilSqrt(count) == CHOOSE c \in 0..count : c * c >= count /\ (c = 0 \/ (c - 1) * (c - 1) < count)

(* the square root rounded to the nearest *)
TargetLayoutRounded(count) ==
    IF count <= 1 THEN [rows |-> 1, cols |-> 1]
    ELSE IF count = 2 THEN [rows |-> 1, cols |-> 2]
    ELSE LET c == (Sqrt(4 * count) + 1) \div 2
         IN  [rows |-> CeilDiv(count, c), cols |-> c]

(* targetRows, targetCols of a face count *)
TargetLayout(count) ==
    IF count <= 1 THEN [rows |-> 1, cols |-> 1]
    ELSE IF count = 2 THEN [rows |-> 1, cols |-> 2]
    ELSE [rows |-> CeilDiv(count, CeilSqrt(count)), cols |-> CeilSqrt(count)]

(* the UI indicator of a detected layout *)
UiDimOf(lay) == IF lay.rows = lay.cols /\ lay.rows \in {1, 2, 4, 8} THEN lay.rows ELSE 0

(* (Math.random() - 0.5) * 50, the n-th call of the stream *)
Offset(rs, n) == (Random(rs, n) - 500) * 50

(* the entry pushed at index (from 0), the nth entry pushed *)
NewPanel(template, totalCells, index, rs, nth) ==
    [template EXCEPT
        !.hueShift = (template.hueShift + ((360 * Milli) \div totalCells) * index)
                     % (360 * Milli),
        !.offsetX = Offset(rs, 2 * nth - 1),
        !.offsetY = Offset(rs, 2 * nth)]

(* an effect that only ever pushes *)
LayoutEffectWithoutShrink(prev, totalCells, rs) ==
    IF Len(prev) >= totalCells THEN prev
    ELSE [i \in 1..totalCells |->
            IF i <= Len(prev) THEN prev[i]
            ELSE NewPanel(IF Len(prev) > 0 THEN prev[1] ELSE APP_DEFAULT_SETTINGS,
                          totalCells, i - 1, rs, i - Len(prev))]

(* the updater of the effect on [layout] *)
LayoutEffect(prev, totalCells, rs) ==
    IF Len(prev) = totalCells THEN prev
    ELSE IF Len(prev) > totalCells THEN SubSeq(prev, 1, totalCells)
    ELSE LET template == IF Len(prev) > 0 THEN prev[1] ELSE APP_DEFAULT_SETTINGS
         IN  [i \in 1..totalCells |->
                IF i <= Len(prev) THEN prev[i]
                ELSE NewPanel(template, totalCells, i - 1, rs, i - Len(prev))]

(* initialSettings of handleReset *)
ResetSettings(totalCells, rs) ==
    [i \in 1..totalCells |->
        [APP_DEFAULT_SETTINGS EXCEPT
            !.hueShift = ((360 * Milli) \div totalCells) * (i - 1),
            !.offsetX = Offset(rs, 2 * i - 1),
            !.offsetY = Offset(rs, 2 * i)]]

(* the stages counted modulo 8 *)
NextStageOfEight(prev) == (prev + 1) % 8

(* the updater of the sequencer's interval *)
NextStage(prev) == (prev + 1) % 7

(* an effect that leaves the stage where the sequence stopped *)
SequencerEffectWithoutReset(auto, stage) == stage

(* the effect on [isAutoLayout]: layoutStage after it ran *)
SequencerEffect(auto, stage) == IF auto THEN stage ELSE 4

(* isAutoLayout after handleToggleFaceGrid, were the conflict left alone *)
AutoAfterFaceToggleKept(nextState, auto) == auto

(* isAutoLayout after handleToggleFaceGrid *)
AutoAfterFaceToggle(nextState, auto) == IF nextState THEN FALSE ELSE auto

(* appLast when the latest step was no detection *)
NoStep == [op |-> "", count |-> 0 - 1, replaced |-> FALSE]

(* App after its first render and the effects of the mount, and then with
   the webcam switched on (stream) and the detector loaded (detector), or
   not *)
AppStarted(rs, stream, detector) ==
    /\ layout = [rows |-> 2, cols |-> 2]
    /\ uiGridDim = 2
    /\ panelSettings = LayoutEffect(<<>>, 4, rs)
    /\ isFaceGridMode = FALSE
    /\ isAutoLayout = FALSE
    /\ screenEffect = "grid"
    /\ layoutStage = SequencerEffect(FALSE, 0)
    /\ layoutSeed = 0
    /\ mediaStream = stream
    /\ faceDetector = detector
    /\ faceInterval = FALSE
    /\ sequencer = FALSE
    /\ webcamRequests = 0
    /\ appLast = NoStep

AppMounted(rs) == AppStarted(rs, FALSE, FALSE)

AppIdle == AppMounted(1)

(* the state after a render with the values given, and the effects on
   [layout], on [isFaceGridMode, mediaStream] and on [isAutoLayout] that the
   changes make run; replaced: layout is a new object, renewed: mediaStream
   is *)
Commit(lay, replaced, face, auto, stream, renewed, rs) ==
    /\ layout' = lay
    /\ panelSettings' = IF replaced
                        THEN LayoutEffect(panelSettings, lay.rows * lay.cols, rs)
                        ELSE panelSettings
    /\ isFaceGridMode' = face
    /\ mediaStream' = stream
    /\ faceInterval' = IF face # isFaceGridMode \/ renewed
                       THEN face /\ stream /\ faceDetector
                       ELSE faceInterval
    /\ isAutoLayout' = auto
    /\ sequencer' = IF auto # isAutoLayout THEN auto ELSE sequencer
    /\ layoutStage' = IF auto # isAutoLayout
                      THEN SequencerEffect(auto, layoutStage)
                      ELSE layoutStage

(* the streams a growth to totalCells may draw its offsets from *)
StreamsFor(totalCells, streams) ==
    IF Len(panelSettings) < totalCells THEN streams ELSE {1}

handleToggleFaceGrid ==
    LET nextState == ~isFaceGridMode
    IN  /\ nextState /\ ~mediaStream => webcamRequests < MaxRequests
        /\ Commit(layout, FALSE, nextState, AutoAfterFaceToggle(nextState, isAutoLayout),
                  mediaStream, FALSE, 1)
        /\ screenEffect' = IF nextState THEN "grid" ELSE screenEffect
        /\ webcamRequests' = IF nextState /\ ~mediaStream
                             THEN webcamRequests + 1 ELSE webcamRequests
        /\ appLast' = NoStep
        /\ UNCHANGED <<canvasVars, uiGridDim, layoutSeed, faceDetector>>

handleToggleWebcam ==
    /\ ~mediaStream => webcamRequests < MaxRequests
    /\ Commit(layout, FALSE, isFaceGridMode, isAutoLayout, FALSE, mediaStream, 1)
    /\ webcamRequests' = IF mediaStream THEN webcamRequests ELSE webcamRequests + 1
    /\ appLast' = NoStep
    /\ UNCHANGED <<canvasVars, uiGridDim, screenEffect, layoutSeed, faceDetector>>

(* getUserMedia resolves: setMediaStream(stream) *)
WebcamGranted ==
    /\ webcamRequests > 0
    /\ webcamRequests' = webcamRequests - 1
    /\ Commit(layout, FALSE, isFaceGridMode, isAutoLayout, TRUE, TRUE, 1)
    /\ appLast' = NoStep
    /\ UNCHANGED <<canvasVars, uiGridDim, screenEffect, layoutSeed, faceDetector>>

(* getUserMedia rejects: the error is shown, the stream stays as it is *)
WebcamDenied ==
    /\ webcamRequests > 0
    /\ webcamRequests' = webcamRequests - 1
    /\ appLast' = NoStep
    /\ UNCHANGED <<canvasVars, layout, uiGridDim, panelSettings, isFaceGridMode,
                   isAutoLayout, screenEffect, layoutStage, layoutSeed, mediaStream,
                   faceDetector, faceInterval, sequencer>>

(* initFaceDetector resolves; no effect depends on the ref *)
DetectorReady ==
    /\ ~faceDetector
    /\ faceDetector' = TRUE
    /\ appLast' = NoStep
    /\ UNCHANGED <<canvasVars, layout, uiGridDim, panelSettings, isFaceGridMode,
                   isAutoLayout, screenEffect, layoutStage, layoutSeed, mediaStream,
                   faceInterval, sequencer, webcamRequests>>

(* the interval of the face detection loop fires on a new frame of the
   webcam video and the detector reports count faces *)
DetectWith(streams) ==
    /\ faceInterval
    /\ \E count \in 0..MaxFaces :
         \E target \in {TargetLayout(count)} :
           \E replaced \in {layout.rows # target.rows \/ layout.cols # target.cols} :
             \E rs \in StreamsFor(IF replaced THEN target.rows * target.cols ELSE 0, streams) :
               /\ Commit(IF replaced THEN target ELSE layout, replaced, isFaceGridMode,
                         isAutoLayout, mediaStream, FALSE, rs)
               /\ uiGridDim' = UiDimOf(target)
               /\ appLast' = [op |-> "Detect", count |-> count, replaced |-> replaced]
    /\ UNCHANGED <<canvasVars, screenEffect, layoutSeed, faceDetector, webcamRequests>>

handleGridDimChangeWith(streams) ==
    /\ \E dim \in GridOptions : \E rs \in StreamsFor(dim * dim, streams) :
         /\ uiGridDim' = dim
         /\ Commit([rows |-> dim, cols |-> dim], TRUE, FALSE, FALSE, mediaStream, FALSE, rs)
    /\ appLast' = NoStep
    /\ UNCHANGED <<canvasVars, screenEffect, layoutSeed, faceDetector, webcamRequests>>

handleToggleAutoLayoutWith(streams) ==
    /\ IF ~isAutoLayout
       THEN \E rs \in StreamsFor(64, streams) :
              /\ Commit([rows |-> 8, cols |-> 8], TRUE, FALSE, TRUE, mediaStream, FALSE, rs)
              /\ uiGridDim' = 8
              /\ screenEffect' = "grid"
       ELSE /\ Commit(layout, FALSE, isFaceGridMode, FALSE, mediaStream, FALSE, 1)
            /\ UNCHANGED <<uiGridDim, screenEffect>>
    /\ appLast' = NoStep
    /\ UNCHANGED <<canvasVars, layoutSeed, faceDetector, webcamRequests>>

(* the offsets of new panels drawn from one stream of Math.random() values *)
OneStream == {1}

Detect == DetectWith(OneStream)

handleGridDimChange == handleGridDimChangeWith(OneStream)

handleToggleAutoLayout == handleToggleAutoLayoutWith(OneStream)

onScreenEffectChange ==
    /\ \E e \in EffectChoices : screenEffect' = e
    /\ Commit(layout, FALSE, FALSE, FALSE, mediaStream, FALSE, 1)
    /\ appLast' = NoStep
    /\ UNCHANGED <<canvasVars, uiGridDim, layoutSeed, faceDetector, webcamRequests>>

(* the interval of the layout sequencer fires, 4 seconds after the last *)
SequencerTick ==
    /\ sequencer
    /\ layoutStage' = NextStage(layoutStage)
    /\ IF layoutStage' = 6
       THEN \E rs \in StreamIds : layoutSeed' = Random(rs, 1)
       ELSE layoutSeed' = layoutSeed
    /\ appLast' = NoStep
    /\ UNCHANGED <<canvasVars, layout, uiGridDim, panelSettings, isFaceGridMode,
                   isAutoLayout, screenEffect, mediaStream, faceDetector, faceInterval,
                   sequencer, webcamRequests>>

handleReset ==
    /\ \E rs \in StreamIds : panelSettings' = ResetSettings(layout.rows * layout.cols, rs)
    /\ appLast' = NoStep
    /\ UNCHANGED <<canvasVars, layout, uiGridDim, isFaceGridMode, isAutoLayout,
                   screenEffect, layoutStage, layoutSeed, mediaStream, faceDetector,
                   faceInterval, sequencer, webcamRequests>>

(* handleGlobalSettingsChange(key, value) on the array *)
onSettingsChange ==
    /\ \E key \in DOMAIN Choices : \E value \in Choices[key] :
         panelSettings' = [i \in 1..Len(panelSettings) |->
                             [panelSettings[i] EXCEPT ![key] = value]]
    /\ appLast' = NoStep
    /\ UNCHANGED <<canvasVars, layout, uiGridDim, isFaceGridMode, isAutoLayout,
                   screenEffect, layoutStage, layoutSeed, mediaStream, faceDetector,
                   faceInterval, sequencer, webcamRequests>>

----------------------------------------------------------------------------
(* The effect of ParticleCanvas: setup and cleanup *)

DefaultCtx == [fillStyle |-> NoColor, strokeStyle |-> NoColor, lineWidth |-> Milli,
               shadowBlur |-> 0, shadowColor |-> NoColor, font |-> 10 * Milli]

NoRender == [kind |-> "none", id |-> 0, time |-> 0, sum |-> 0, pixelSize |-> 0,
             cols |-> 0, rows |-> 0, size |-> <<0, 0>>, ops |-> <<>>,
             visited |-> <<>>, used |-> {}, kept |-> {}, effective |-> {}, handle |-> 0,
             elapsed |-> 0, cmds |-> <<>>, rs |-> 0]

NoProbe == [rgb |-> <<0, 0, 0>>, hsl |-> NoColor]

Closure(id, settings, playing, startTime, handle) ==
    [id |-> id, settings |-> settings, isPlaying |-> playing, startTime |-> startTime,
     handle |-> handle]

cancelAnimationFrame(pend, handle) == {q \in pend : q.handle # handle}

(* a cleanup that cancels nothing *)
CleanupWithoutCancel(pend, ref) == pend

(* a cleanup that cancels the request the effect made itself, not the one
   animationFrameRef holds *)
CleanupFirstRequest(pend, ref) == cancelAnimationFrame(pend, loop.handle)

(* the cleanup returned by the effect: the callbacks left pending *)
Cleanup(pend, ref) == IF ref # 0 THEN cancelAnimationFrame(pend, ref) ELSE pend

(* the effect body, run with the props (settings, playing) after the cleanup
   of the previous run: handleResize(), startTime, the first request *)
Setup(settings, playing) ==
    /\ canvas' = container
    /\ surface' = <<>>
    /\ ctx' = DefaultCtx
    /\ loop' = Closure(loop.id + 1, settings, playing, now, nextHandle)
    /\ listeners' = {loop.id + 1}
    /\ pending' = Cleanup(pending, animationFrameRef)
                    \cup {Closure(loop.id + 1, settings, playing, now, nextHandle)}
    /\ animationFrameRef' = nextHandle
    /\ nextHandle' = nextHandle + 1

Init ==
    /\ gridSettings = DEFAULT_SETTINGS
    /\ isPlaying = TRUE
    /\ analyser = FALSE
    /\ bgReady = FALSE
    /\ camReady = FALSE
    /\ container \in ContainerSizes
    /\ canvas = container
    /\ mounted = TRUE
    /\ loop = Closure(1, DEFAULT_SETTINGS, TRUE, 0, 1)
    /\ listeners = {1}
    /\ pending = {Closure(1, DEFAULT_SETTINGS, TRUE, 0, 1)}
    /\ animationFrameRef = 1
    /\ nextHandle = 2
    /\ now = 0
    /\ ticks = 0
    /\ analysis = [w |-> 300, h |-> 150, data |-> <<>>]
    /\ surface = <<>>
    /\ ctx = DefaultCtx
    /\ last = NoRender
    /\ probe = NoProbe
    /\ AppIdle

----------------------------------------------------------------------------
(* render *)

(* the request left out of the paused branch *)
RescheduleWhenPlaying(p) ==
    IF p.isPlaying
    THEN /\ pending' = (pending \ {p}) \cup {[p EXCEPT !.handle = nextHandle]}
         /\ animationFrameRef' = nextHandle
         /\ nextHandle' = nextHandle + 1
    ELSE /\ pending' = pending \ {p}
         /\ UNCHANGED <<animationFrameRef, nextHandle>>

(* animationFrameRef.current = requestAnimationFrame(render) *)
Reschedule(p) ==
    /\ pending' = (pending \ {p}) \cup {[p EXCEPT !.handle = nextHandle]}
    /\ animationFrameRef' = nextHandle
    /\ nextHandle' = nextHandle + 1

(* the frame of the callback p run at time t on the canvas as it is *)
Frame(p, t, sum, bg, cam, rs) ==
    LET pixelSize == PixelSize(p.settings)
        cols      == GridCols(canvas[1], pixelSize)
        rows      == GridRows(canvas[2], pixelSize)
    IN  [s |-> p.settings, w |-> canvas[1], h |-> canvas[2], pixelSize |-> pixelSize,
         cols |-> cols, rows |-> rows,
         data |-> ImageData(cols, rows, bg, cam, bgReady, camReady),
         elapsed |-> t - p.startTime, time |-> t, sum |-> sum, rs |-> rs]

(* ctx.font, set once a frame when the shape is a text shape *)
FrameCtx(fc, c) == IF IsTextShape(fc.s.shape) THEN [c EXCEPT !.font = FontSize(fc)] ELSE c

(* the calls of the composition step, in order *)
CompositionOps ==
    <<"fillRect">> \o (IF bgReady THEN <<"drawImage bg">> ELSE <<>>)
                   \o (IF camReady THEN <<"drawImage cam">> ELSE <<>>)
                   \o <<"getImageData">>

(* the draw pass run without the readiness check *)
ActiveWhenPlaying(p) == p.isPlaying

(* the draw pass runs *)
Active(p) == p.isPlaying /\ (bgReady \/ camReady)

Noted(kind, p, t, sum) ==
    [NoRender EXCEPT !.kind = kind, !.id = p.id, !.time = t, !.sum = sum,
                     !.handle = nextHandle]

render(p, t, sum, bg, cam, rs) ==
    /\ now' = t
    /\ ticks' = ticks + 1
    /\ IF ~p.isPlaying
       THEN /\ last' = Noted("paused", p, t, 0)
            /\ UNCHANGED <<analysis, surface, ctx>>
       ELSE IF Active(p)
       THEN \E fc \in {Frame(p, t, sum, bg, cam, rs)} :
            \E st \in {Iterate(fc, 0, [cmds |-> <<>>, ctx |-> FrameCtx(fc, ctx),
                                       calls |-> 0, visited |-> <<>>, used |-> {},
                                       kept |-> {}, effective |-> {}])} :
                /\ analysis' = [w |-> fc.cols, h |-> fc.rows, data |-> fc.data]
                /\ surface' = st.cmds
                /\ ctx' = st.ctx
                /\ last' = [Noted("frame", p, t, sum) EXCEPT
                               !.pixelSize = fc.pixelSize, !.cols = fc.cols,
                               !.rows = fc.rows, !.size = canvas,
                               !.ops = CompositionOps \o <<"clearRect">>,
                               !.visited = st.visited, !.used = st.used,
                               !.kept = st.kept, !.effective = st.effective,
                               !.elapsed = fc.elapsed, !.cmds = st.cmds,
                               !.rs = fc.rs]
       ELSE /\ last' = Noted("idle", p, t, sum)
            /\ UNCHANGED <<analysis, surface, ctx>>
    /\ Reschedule(p)
    /\ UNCHANGED <<appVars, probe, gridSettings, isPlaying, analyser, bgReady, camReady, container,
                   canvas, mounted, loop, listeners>>

(* an audio level that outlives the analyser: the level of the frame before *)
TickWithStaleLevel(sums) ==
    /\ ticks < MaxTicks
    /\ \E p \in pending :
         \E sum \in (IF p.isPlaying /\ analyser THEN sums ELSE {last.sum}) :
           \E bg \in (IF Active(p) /\ bgReady THEN Scenes ELSE {0}),
              cam \in (IF Active(p) /\ camReady THEN Scenes ELSE {0}),
              rs \in (IF Active(p) /\ UsesRandom(p.settings) THEN StreamIds ELSE {1}),
              dt \in TimeSteps :
             render(p, now + dt, sum, bg, cam, rs)

(* the browser runs a pending callback; the inputs it meets are those the
   branch taken reads: the audio bytes, the frames the videos show *)
TickOver(sums, scenes) ==
    /\ ticks < MaxTicks
    /\ \E p \in pending :
         \E sum \in (IF p.isPlaying /\ analyser THEN sums ELSE {0}) :
           \E bg \in (IF Active(p) /\ bgReady THEN scenes ELSE {0}),
              cam \in (IF Active(p) /\ camReady THEN scenes ELSE {0}),
              rs \in (IF Active(p) /\ UsesRandom(p.settings) THEN StreamIds ELSE {1}),
              dt \in TimeSteps :
             render(p, now + dt, sum, bg, cam, rs)

TickWith(sums) == TickOver(sums, Scenes)

Tick == TickWith(AudioSums)

----------------------------------------------------------------------------
(* The owner (App) and the environment *)

(* the effect with settings left out of its dependency list *)
RerunOnPlayOnly(settings, playing) ==
    /\ mounted
    /\ loop.id < MaxLoops
    /\ gridSettings' = settings
    /\ isPlaying' = playing
    /\ IF playing # isPlaying
       THEN Setup(settings, playing)
       ELSE UNCHANGED <<canvas, surface, ctx, loop, listeners, pending,
                        animationFrameRef, nextHandle>>
    /\ UNCHANGED <<appVars, probe, analyser, bgReady, camReady, container, mounted, now, ticks,
                   analysis, last>>

(* a prop in the dependency list changed: cleanup, then the effect again *)
Rerun(settings, playing) ==
    /\ mounted
    /\ loop.id < MaxLoops
    /\ gridSettings' = settings
    /\ isPlaying' = playing
    /\ Setup(settings, playing)
    /\ UNCHANGED <<appVars, probe, analyser, bgReady, camReady, container, mounted, now, ticks,
                   analysis, last>>

(* onTogglePlay: setIsPlaying(!isPlaying) *)
TogglePlay == Rerun(gridSettings, ~isPlaying)

(* handleGlobalSettingsChange(key, value): every entry is a new object *)
handleGlobalSettingsChange ==
    \E key \in DOMAIN Choices : \E value \in Choices[key] :
        Rerun([gridSettings EXCEPT ![key] = value], isPlaying)

(* the component is unmounted: the cleanup alone *)
Unmount ==
    /\ mounted
    /\ mounted' = FALSE
    /\ pending' = Cleanup(pending, animationFrameRef)
    /\ listeners' = {}
    /\ UNCHANGED <<appVars, probe, gridSettings, isPlaying, analyser, bgReady, camReady, container,
                   canvas, loop, animationFrameRef, nextHandle, now, ticks, analysis,
                   surface, ctx, last>>

(* handleToggleMic: analyserRef.current is set, or set to null *)
handleToggleMic ==
    /\ analyser' = ~analyser
    /\ UNCHANGED <<appVars, probe, gridSettings, isPlaying, bgReady, camReady, container, canvas,
                   mounted, loop, listeners, pending, animationFrameRef, nextHandle,
                   now, ticks, analysis, surface, ctx, last>>

(* a video becomes ready, or stops being ready *)
SourceChange ==
    /\ \/ bgReady' = ~bgReady /\ camReady' = camReady
       \/ camReady' = ~camReady /\ bgReady' = bgReady
    /\ UNCHANGED <<appVars, probe, gridSettings, isPlaying, analyser, container, canvas, mounted,
                   loop, listeners, pending, animationFrameRef, nextHandle, now,
                   ticks, analysis, surface, ctx, last>>

(* the window is resized: the container changes and handleResize runs for
   every listener; assigning canvas.width resets the canvas and its context *)
ResizeTo(sizes) ==
    /\ \E size \in sizes \ {container} :
         /\ container' = size
         /\ IF listeners # {}
            THEN canvas' = size /\ surface' = <<>> /\ ctx' = DefaultCtx
            ELSE UNCHANGED <<canvas, surface, ctx>>
    /\ UNCHANGED <<appVars, probe, gridSettings, isPlaying, analyser, bgReady, camReady, mounted,
                   loop, listeners, pending, animationFrameRef, nextHandle, now,
                   ticks, analysis, last>>

(* the grid layout changes the container without a resize event *)
LayoutTo(sizes) ==
    /\ \E size \in sizes \ {container} : container' = size
    /\ UNCHANGED <<appVars, probe, gridSettings, isPlaying, analyser, bgReady, camReady, canvas,
                   mounted, loop, listeners, pending, animationFrameRef, nextHandle,
                   now, ticks, analysis, surface, ctx, last>>

handleResize == ResizeTo(ContainerSizes)

LayoutChange == LayoutTo(ContainerSizes)

Next ==
    \/ Tick
    \/ TogglePlay
    \/ handleGlobalSettingsChange
    \/ Unmount
    \/ handleToggleMic
    \/ SourceChange
    \/ handleResize
    \/ LayoutChange

Spec == Init /\ [][Next]_vars

(* The loop alone: render, pause and resume, settings changes, sources that
   come and go, unmount; the browser runs a pending callback at the next
   display refresh *)
LoopNext ==
    \/ Tick
    \/ TogglePlay
    \/ handleGlobalSettingsChange
    \/ Unmount
    \/ SourceChange

LoopSpec == Init /\ [][LoopNext]_vars /\ WF_vars(Tick)

----------------------------------------------------------------------------
(* The first frame of a canvas over the settings: the settings, the surface
   and the sources are drawn from bounded sets, and render runs once *)

FrameStyles ==
    {[shape |-> "square", colorMode |-> "natural", animationMode |-> "none",
      hueShift |-> 0, glow |-> 0],
     [shape |-> "circle", colorMode |-> "grayscale", animationMode |-> "wave",
      hueShift |-> 0, glow |-> 10],
     [shape |-> "cross", colorMode |-> "cyber", animationMode |-> "ripple",
      hueShift |-> 300, glow |-> 0],
     [shape |-> "char", colorMode |-> "heat", animationMode |-> "scan",
      hueShift |-> 90, glow |-> 0],
     [shape |-> "matrix", colorMode |-> "matrix", animationMode |-> "jitter",
      hueShift |-> 360, glow |-> 10],
     [shape |-> "blocks", colorMode |-> "natural", animationMode |-> "wave",
      hueShift |-> 300, glow |-> 30],
     [shape |-> "ascii", colorMode |-> "heat", animationMode |-> "none",
      hueShift |-> 0, glow |-> 0],
     [shape |-> "geometric", colorMode |-> "cyber", animationMode |-> "jitter",
      hueShift |-> 90, glow |-> 0]}

FrameSettings ==
    {[pixelSize |-> ps, threshold |-> th, density |-> de, colorMode |-> st.colorMode,
      hueShift |-> st.hueShift, shape |-> st.shape,
      animationMode |-> st.animationMode, glow |-> st.glow] :
        ps \in {15, 45, 100}, th \in {0, 20, 100}, de \in {5, 50, 100, 150},
        st \in FrameStyles}

FrameSizes == {<<5, 3>>, <<7, 5>>, <<40, 30>>}
FrameAudioSums == {0, 8160, 32640}              \* level 0, 1/4 (beat 1/8), 1

FrameInit ==
    /\ gridSettings \in FrameSettings
    /\ isPlaying = TRUE
    /\ analyser = TRUE
    /\ bgReady = TRUE
    /\ camReady \in BOOLEAN
    /\ container \in FrameSizes
    /\ GridCols(container[1], PixelSize(gridSettings)) <= Len(HashTable[1])
    /\ GridRows(container[2], PixelSize(gridSettings)) <= Len(HashTable)
    /\ canvas = container
    /\ mounted = TRUE
    /\ loop = Closure(1, gridSettings, TRUE, 0, 1)
    /\ listeners = {1}
    /\ pending = {Closure(1, gridSettings, TRUE, 0, 1)}
    /\ animationFrameRef = 1
    /\ nextHandle = 2
    /\ now = 0
    /\ ticks = 0
    /\ analysis = [w |-> 300, h |-> 150, data |-> <<>>]
    /\ surface = <<>>
    /\ ctx = DefaultCtx
    /\ last = NoRender
    /\ probe = NoProbe
    /\ AppIdle

FrameTick == ticks = 0 /\ TickWith(FrameAudioSums)

FrameSpec == FrameInit /\ [][FrameTick]_vars

----------------------------------------------------------------------------
(* The grid of a canvas under resizes: the pixel size is drawn from values on
   both sides of the clamp; render, window resizes and layout changes run *)

GridSettings == {[DEFAULT_SETTINGS EXCEPT !.pixelSize = ps] : ps \in {15, 45, 80}}
GridSizes == {<<5, 3>>, <<7, 5>>, <<9, 4>>}

GridInit ==
    /\ gridSettings \in GridSettings
    /\ isPlaying = TRUE
    /\ analyser = FALSE
    /\ bgReady = TRUE
    /\ camReady = FALSE
    /\ container \in GridSizes
    /\ canvas = container
    /\ mounted = TRUE
    /\ loop = Closure(1, gridSettings, TRUE, 0, 1)
    /\ listeners = {1}
    /\ pending = {Closure(1, gridSettings, TRUE, 0, 1)}
    /\ animationFrameRef = 1
    /\ nextHandle = 2
    /\ now = 0
    /\ ticks = 0
    /\ analysis = [w |-> 300, h |-> 150, data |-> <<>>]
    /\ surface = <<>>
    /\ ctx = DefaultCtx
    /\ last = NoRender
    /\ probe = NoProbe
    /\ AppIdle

GridNext ==
    \/ Tick
    \/ ResizeTo(GridSizes)
    \/ LayoutTo(GridSizes)

GridSpec == GridInit /\ [][GridNext]_vars

----------------------------------------------------------------------------
(* The same frame drawn again: the button of the selected shape is clicked,
   which hands the canvas an equal settings object and starts a new loop, so
   that frames of equal elapsed time are drawn at different callback times
   and after different frames *)

ReplaySettings ==
    {[pixelSize |-> 40, threshold |-> 0, density |-> 100, colorMode |-> "natural",
      hueShift |-> 0, shape |-> sh, animationMode |-> an, glow |-> gl] :
        sh \in Shapes, an \in {"none", "wave", "ripple"}, gl \in {0, 10}}

ReplaySizes == {<<8, 8>>}
ReplayAudioSums == {0, 8160, 32640}             \* beat 0, 1/8, 1

ReplayInit ==
    /\ gridSettings \in ReplaySettings
    /\ isPlaying = TRUE
    /\ analyser = TRUE
    /\ bgReady = TRUE
    /\ camReady = FALSE
    /\ container \in ReplaySizes
    /\ canvas = container
    /\ mounted = TRUE
    /\ loop = Closure(1, gridSettings, TRUE, 0, 1)
    /\ listeners = {1}
    /\ pending = {Closure(1, gridSettings, TRUE, 0, 1)}
    /\ animationFrameRef = 1
    /\ nextHandle = 2
    /\ now = 0
    /\ ticks = 0
    /\ analysis = [w |-> 300, h |-> 150, data |-> <<>>]
    /\ surface = <<>>
    /\ ctx = DefaultCtx
    /\ last = NoRender
    /\ probe = NoProbe
    /\ AppIdle

(* onSettingsChange('shape', s.id) on the button of the shape in use *)
ReselectShape == Rerun([gridSettings EXCEPT !.shape = gridSettings.shape], isPlaying)

ReplayNext ==
    \/ TickWith(ReplayAudioSums)
    \/ ReselectShape

ReplaySpec == ReplayInit /\ [][ReplayNext]_vars

----------------------------------------------------------------------------
(* The microphone switched on and off between frames *)

AudioSettings ==
    {[pixelSize |-> 40, threshold |-> 20, density |-> 100, colorMode |-> "natural",
      hueShift |-> 0, shape |-> sh, animationMode |-> "none", glow |-> gl] :
        sh \in {"square", "circle", "cross", "char"}, gl \in {0, 10}}

AudioSizes == {<<8, 8>>}
AudioLevels == {0, 8160, 32640}                 \* level 0, 1/4, 1

AudioInit ==
    /\ gridSettings \in AudioSettings
    /\ isPlaying = TRUE
    /\ analyser \in BOOLEAN
    /\ bgReady = TRUE
    /\ camReady = FALSE
    /\ container \in AudioSizes
    /\ canvas = container
    /\ mounted = TRUE
    /\ loop = Closure(1, gridSettings, TRUE, 0, 1)
    /\ listeners = {1}
    /\ pending = {Closure(1, gridSettings, TRUE, 0, 1)}
    /\ animationFrameRef = 1
    /\ nextHandle = 2
    /\ now = 0
    /\ ticks = 0
    /\ analysis = [w |-> 300, h |-> 150, data |-> <<>>]
    /\ surface = <<>>
    /\ ctx = DefaultCtx
    /\ last = NoRender
    /\ probe = NoProbe
    /\ AppIdle

AudioNext ==
    \/ TickWith(AudioLevels)
    \/ handleToggleMic

AudioSpec == AudioInit /\ [][AudioNext]_vars

----------------------------------------------------------------------------
(* The first frame of a canvas over videos of one colour: every cell has the
   pixel of the tint shown; the first callback comes some time after the
   effect ran, on a grid of one cell or of three by three *)

PlainSettings ==
    [pixelSize |-> 20, threshold |-> 0, density |-> 100, colorMode |-> "natural",
     hueShift |-> 0, shape |-> "square", animationMode |-> "none", glow |-> 0]

ShadeSettings ==
    {[PlainSettings EXCEPT !.colorMode = "matrix", !.hueShift = hs] :
        hs \in {0, 1, 120, 239, 240, 241, 359, 360}}
    \cup {[PlainSettings EXCEPT !.animationMode = "ripple", !.shape = "circle"]}
    \cup {[PlainSettings EXCEPT !.shape = sh] :
            sh \in {"char", "matrix", "blocks", "ascii", "geometric"}}

ShadeSizes == {<<2, 2>>, <<6, 6>>}
ShadeScenes == 1..(Len(Tints) + 1)
ShadeAudioSums == {0, 8160, 32640}
ShadeClocks == {0, 1000, 2700}                  \* ms from the effect to the last refresh

ShadeInit ==
    /\ gridSettings \in ShadeSettings
    /\ isPlaying = TRUE
    /\ analyser = TRUE
    /\ bgReady = TRUE
    /\ camReady = FALSE
    /\ container \in ShadeSizes
    /\ canvas = container
    /\ mounted = TRUE
    /\ loop = Closure(1, gridSettings, TRUE, 0, 1)
    /\ listeners = {1}
    /\ pending = {Closure(1, gridSettings, TRUE, 0, 1)}
    /\ animationFrameRef = 1
    /\ nextHandle = 2
    /\ now \in ShadeClocks
    /\ ticks = 0
    /\ analysis = [w |-> 300, h |-> 150, data |-> <<>>]
    /\ surface = <<>>
    /\ ctx = DefaultCtx
    /\ last = NoRender
    /\ probe = NoProbe
    /\ AppIdle

ShadeTick == ticks = 0 /\ TickOver(ShadeAudioSums, ShadeScenes)

ShadeSpec == ShadeInit /\ [][ShadeTick]_vars

----------------------------------------------------------------------------
(* rgbToHsl called on its own, on the corners and edges of the colour cube
   and on every grey *)

Levels == {0, 1, 127, 128, 254, 255}

HslInputs == (Levels \X Levels \X Levels) \cup {<<v, v, v>> : v \in 0..ByteMax}

HslInit ==
    /\ gridSettings = DEFAULT_SETTINGS
    /\ isPlaying = TRUE
    /\ analyser = FALSE
    /\ bgReady = FALSE
    /\ camReady = FALSE
    /\ container \in ContainerSizes
    /\ canvas = container
    /\ mounted = TRUE
    /\ loop = Closure(1, DEFAULT_SETTINGS, TRUE, 0, 1)
    /\ listeners = {1}
    /\ pending = {Closure(1, DEFAULT_SETTINGS, TRUE, 0, 1)}
    /\ animationFrameRef = 1
    /\ nextHandle = 2
    /\ now = 0
    /\ ticks = 0
    /\ analysis = [w |-> 300, h |-> 150, data |-> <<>>]
    /\ surface = <<>>
    /\ ctx = DefaultCtx
    /\ last = NoRender
    /\ AppIdle
    /\ probe \in {[rgb |-> rgb, hsl |-> NoColor] : rgb \in HslInputs}

Convert ==
    /\ probe.hsl = NoColor
    /\ probe' = [probe EXCEPT !.hsl = rgbToHsl(probe.rgb[1], probe.rgb[2], probe.rgb[3])]
    /\ UNCHANGED <<appVars, gridSettings, isPlaying, analyser, bgReady, camReady, container,
                   canvas, mounted, loop, listeners, pending, animationFrameRef,
                   nextHandle, now, ticks, analysis, surface, ctx, last>>

HslSpec == HslInit /\ [][Convert]_vars

----------------------------------------------------------------------------
(* The glyph index of the density ramps on its own: a pixel of every
   brightness under every audio level of the model, looked up, then made
   brighter by one third of a level or louder by one step *)

RampShapes == {"blocks", "ascii"}
Loudness == 0..8                                \* audioLevel = (k / 8)^2

AudioSumOf(k) == (LevelDen \div 64) * k * k

(* a pixel with r + g + b = sum *)
PixelOfSum(sum) ==
    LET r == Min2(ByteMax, sum)
        g == Min2(ByteMax, sum - r)
    IN  <<r, g, sum - r - g>>

(* charIndex of a cell of the shape, pixel sum and loudness *)
RampIndex(shape, sum, k) ==
    LET fc == [s |-> [PlainSettings EXCEPT !.shape = shape], sum |-> AudioSumOf(k),
               time |-> 0, rs |-> 0]
        px == PixelOfSum(sum)
    IN  CharIndex(fc, 0, 0, px[1], px[2], px[3], 0).index

NoIndex == 0 - 1

IndexInit ==
    /\ gridSettings = DEFAULT_SETTINGS
    /\ isPlaying = TRUE
    /\ analyser = FALSE
    /\ bgReady = FALSE
    /\ camReady = FALSE
    /\ container \in ContainerSizes
    /\ canvas = container
    /\ mounted = TRUE
    /\ loop = Closure(1, DEFAULT_SETTINGS, TRUE, 0, 1)
    /\ listeners = {1}
    /\ pending = {Closure(1, DEFAULT_SETTINGS, TRUE, 0, 1)}
    /\ animationFrameRef = 1
    /\ nextHandle = 2
    /\ now = 0
    /\ ticks = 0
    /\ analysis = [w |-> 300, h |-> 150, data |-> <<>>]
    /\ surface = <<>>
    /\ ctx = DefaultCtx
    /\ last = NoRender
    /\ AppIdle
    /\ probe \in {[shape |-> sh, sum |-> sum, k |-> k, index |-> NoIndex] :
                    sh \in RampShapes, sum \in 0..(3 * ByteMax), k \in Loudness}

LookupAt(sum, k) ==
    /\ probe' = [probe EXCEPT !.sum = sum, !.k = k,
                              !.index = RampIndex(probe.shape, sum, k)]
    /\ UNCHANGED <<appVars, gridSettings, isPlaying, analyser, bgReady, camReady, container,
                   canvas, mounted, loop, listeners, pending, animationFrameRef,
                   nextHandle, now, ticks, analysis, surface, ctx, last>>

Lookup == probe.index = NoIndex /\ LookupAt(probe.sum, probe.k)

Brighter ==
    /\ probe.index # NoIndex
    /\ probe.sum < 3 * ByteMax
    /\ LookupAt(probe.sum + 1, probe.k)

Louder ==
    /\ probe.index # NoIndex
    /\ probe.k + 1 \in Loudness
    /\ LookupAt(probe.sum, probe.k + 1)

IndexNext == Lookup \/ Brighter \/ Louder

IndexSpec == IndexInit /\ [][IndexNext]_vars

----------------------------------------------------------------------------
(* App on its own: the handlers of the layout, the two intervals, the webcam
   and the detector; the canvases are left as they were mounted *)

AppInit ==
    /\ gridSettings = DEFAULT_SETTINGS
    /\ isPlaying = TRUE
    /\ analyser = FALSE
    /\ bgReady = FALSE
    /\ camReady = FALSE
    /\ container = <<16, 8>>
    /\ canvas = container
    /\ mounted = TRUE
    /\ loop = Closure(1, DEFAULT_SETTINGS, TRUE, 0, 1)
    /\ listeners = {1}
    /\ pending = {Closure(1, DEFAULT_SETTINGS, TRUE, 0, 1)}
    /\ animationFrameRef = 1
    /\ nextHandle = 2
    /\ now = 0
    /\ ticks = 0
    /\ analysis = [w |-> 300, h |-> 150, data |-> <<>>]
    /\ surface = <<>>
    /\ ctx = DefaultCtx
    /\ last = NoRender
    /\ probe = NoProbe
    /\ AppMounted(1)

AppNext ==
    \/ handleToggleFaceGrid
    \/ handleToggleWebcam
    \/ WebcamGranted
    \/ WebcamDenied
    \/ DetectorReady
    \/ Detect
    \/ handleGridDimChange
    \/ handleToggleAutoLayout
    \/ onScreenEffectChange
    \/ SequencerTick

AppSpec == AppInit /\ [][AppNext]_vars

(* The array of per-panel settings: the grid size, the face count and the
   auto layout change the layout, the settings change and Reset the
   entries; the webcam is on and the detector is loaded; the panels of the
   mount and of a Reset draw their offsets from any stream *)

PanelStreams == {2}                             \* the stream new panels draw from

PanelInit ==
    /\ gridSettings = DEFAULT_SETTINGS
    /\ isPlaying = TRUE
    /\ analyser = FALSE
    /\ bgReady = FALSE
    /\ camReady = FALSE
    /\ container = <<16, 8>>
    /\ canvas = container
    /\ mounted = TRUE
    /\ loop = Closure(1, DEFAULT_SETTINGS, TRUE, 0, 1)
    /\ listeners = {1}
    /\ pending = {Closure(1, DEFAULT_SETTINGS, TRUE, 0, 1)}
    /\ animationFrameRef = 1
    /\ nextHandle = 2
    /\ now = 0
    /\ ticks = 0
    /\ analysis = [w |-> 300, h |-> 150, data |-> <<>>]
    /\ surface = <<>>
    /\ ctx = DefaultCtx
    /\ last = NoRender
    /\ probe = NoProbe
    /\ \E rs \in StreamIds : AppStarted(rs, TRUE, TRUE)

PanelNext ==
    \/ handleToggleFaceGrid
    \/ DetectWith(PanelStreams)
    \/ handleGridDimChangeWith(PanelStreams)
    \/ handleToggleAutoLayoutWith(PanelStreams)
    \/ handleReset
    \/ onSettingsChange

PanelSpec == PanelInit /\ [][PanelNext]_vars

----------------------------------------------------------------------------
(* What the claims speak of *)

LastIsFrame == last.kind = "frame"

FrameCells == (0..(last.cols - 1)) \X (0..(last.rows - 1))

(* the sample of the pixel buffer at a cell *)
Sample(cell) ==
    LET i == 4 * (cell[2] * analysis.w + cell[1])
    IN  <<analysis.data[i + 1], analysis.data[i + 2], analysis.data[i + 3]>>

(* the draw commands on the surface for a cell *)
CommandsAt(cell) == {n \in 1..Len(surface) : surface[n].col = cell[1] /\ surface[n].row = cell[2]}

(* density >= 1.0, or hash fraction <= density *)
PassesDensityGate(cell) ==
    gridSettings.density >= 100 \/ HashTable[cell[2] + 1][cell[1] + 1] <= gridSettings.density * 10000

(* 3 * 32640 * max(0, threshold - 50 * audioLevel) *)
ThreeThresholds == 3 * (IF gridSettings.threshold * 32640 >= 50 * last.sum
                        THEN gridSettings.threshold * 32640 - 50 * last.sum ELSE 0)

(* (R + G + B) / 3 > effectiveThreshold *)
AboveThreshold(cell) ==
    (Sample(cell)[1] + Sample(cell)[2] + Sample(cell)[3]) * 32640 > ThreeThresholds

(* C1: in every active frame a cell gets exactly one draw command when it
   passes the density gate and its brightness is strictly above
   effectiveThreshold, and none otherwise *)
C1_OneCommandPerVisibleCell ==
    LastIsFrame =>
        \A cell \in FrameCells :
            Cardinality(CommandsAt(cell))
              = IF PassesDensityGate(cell) /\ AboveThreshold(cell) THEN 1 ELSE 0

C1_Witness ==
    /\ LastIsFrame
    /\ gridSettings.density < 100
    /\ \E cell \in FrameCells : ~PassesDensityGate(cell)
    /\ \E cell \in FrameCells : PassesDensityGate(cell) /\ ~AboveThreshold(cell)
    /\ \E cell \in FrameCells : Cardinality(CommandsAt(cell)) = 1

(* the frame of the end-to-end example: 4 x 3 cells of 10 px, density 1.0,
   threshold 0, no animation, natural colours, squares, no hue shift, silence *)
ExampleFrame ==
    /\ LastIsFrame
    /\ last.cols = 4 /\ last.rows = 3 /\ last.pixelSize = 10
    /\ gridSettings.density = 100 /\ gridSettings.threshold = 0
    /\ gridSettings.animationMode = "none" /\ gridSettings.colorMode = "natural"
    /\ gridSettings.shape = "square" /\ gridSettings.hueShift = 0
    /\ last.sum = 0

(* the command n is the filled rectangle of the cell: centre (col*10+5,
   row*10+5), renderSize 8, 1 px inset: top-left at centre - 3, side 6 *)
ExampleRect(n, cell) ==
    /\ surface[n].op = "fillRect"
    /\ surface[n].x = (cell[1] * 10 + 5 - 3) * 1000
    /\ surface[n].y = (cell[2] * 10 + 5 - 3) * 1000
    /\ surface[n].size = 6 * 1000

IsBlack(cell) == Sample(cell) = <<0, 0, 0>>

(* C2 as claimed: 12 rectangles, one per cell, whatever the pixel values *)
C2_TwelveRectangles ==
    ExampleFrame =>
        /\ Len(surface) = 12
        /\ \A cell \in FrameCells :
             /\ Cardinality(CommandsAt(cell)) = 1
             /\ \A n \in CommandsAt(cell) : ExampleRect(n, cell)

(* C2: in the example frame every cell whose pixel is not pure black gets
   exactly one filled rectangle, centred at (col*10+5, row*10+5) with
   renderSize 8 and 1 px inset, and a pure black cell gets none: 12
   rectangles when no pixel is black *)
C2_RectanglePerNonBlackCell ==
    ExampleFrame =>
        /\ Len(surface) = Cardinality({cell \in FrameCells : ~IsBlack(cell)})
        /\ \A cell \in FrameCells :
             /\ Cardinality(CommandsAt(cell)) = IF IsBlack(cell) THEN 0 ELSE 1
             /\ \A n \in CommandsAt(cell) : ExampleRect(n, cell)

C2_Witness == ExampleFrame /\ Len(surface) = 12

C2_WitnessBlack == ExampleFrame /\ Len(surface) \in 1..11

(* C9: effectiveThreshold is never negative, never above threshold, and 0
   whenever threshold <= 50 * audioLevel (values in 1/LevelDen) *)
C9_EffectiveThresholdRange ==
    \A e \in last.effective :
        /\ e >= 0
        /\ e <= gridSettings.threshold * 32640
        /\ (gridSettings.threshold * 32640 <= 50 * last.sum => e = 0)

C9_Witness ==
    /\ LastIsFrame
    /\ gridSettings.threshold > 0
    /\ gridSettings.threshold * 32640 < 50 * last.sum
    /\ last.effective = {0}

(* a step in which render ran *)
RenderStep == ticks' = ticks + 1

Handles(pend) == {q.handle : q \in pend}

(* C3: every render invocation, paused, without a ready source or after a
   full draw pass, requests exactly one further tick: the callback that ran
   leaves the queue and one callback of the same loop, under a fresh handle
   that animationFrameRef holds, enters it; and while the component stays
   mounted a further render invocation eventually happens *)
C3_AlwaysOneMoreTick ==
    /\ [][RenderStep =>
            /\ Cardinality(pending \ pending') = 1
            /\ Cardinality(pending' \ pending) = 1
            /\ \A q \in pending' \ pending :
                 /\ q.handle = animationFrameRef'
                 /\ q.handle \notin Handles(pending)
                 /\ q.id = last'.id]_vars
    /\ \A n \in 0..(MaxTicks - 1) :
         (mounted /\ ticks = n) ~> (~mounted \/ ticks > n)

C3_Witness ==
    /\ ticks >= 2
    /\ last.kind = "paused"
    /\ Cardinality(pending) = 1

(* C4: a render invocation made while paused or while no source is ready
   leaves the output surface, its context and the analysis buffer as they
   were and makes no composition call, no read and no clear; the draw pass
   runs exactly when playing and a source is ready *)
C4_IdleRenderDrawsNothing ==
    [][RenderStep =>
         /\ (isPlaying /\ (bgReady \/ camReady)) <=> last'.kind = "frame"
         /\ last'.kind = "frame" <=> last'.ops # <<>>
         /\ last'.kind # "frame" =>
              /\ surface' = surface
              /\ ctx' = ctx
              /\ analysis' = analysis]_vars

C4_Witness ==
    /\ last.kind = "idle"
    /\ surface # <<>>
    /\ analysis.data # <<>>

(* C5: once a loop is detached (unmount, or the effect run again) none of
   its callbacks is pending, so that no render of a detached loop runs and
   none requests a tick: every pending callback and every render invocation
   belongs to the loop of a mounted component's latest effect *)
C5_NoTickAfterDetach ==
    /\ [](\A q \in pending : mounted /\ q.id = loop.id)
    /\ [][RenderStep => mounted /\ last'.id = loop.id]_vars

C5_Witness ==
    /\ ~mounted
    /\ ticks > 0
    /\ last.id = loop.id
    /\ pending = {}

(* C6: the cells of a frame are visited in row-major order, the commands on
   the surface are in row-major order of their cells, and they all come from
   one frame: commands of two frames never stand interleaved *)
C6_RowMajorWithinOneFrame ==
    /\ LastIsFrame =>
         last.visited = [n \in 1..(last.cols * last.rows) |->
                            <<(n - 1) % last.cols, (n - 1) \div last.cols>>]
    /\ \A m, n \in 1..Len(surface) :
         m < n =>
           /\ surface[m].frame = surface[n].frame
           /\ \/ surface[m].row < surface[n].row
              \/ surface[m].row = surface[n].row /\ surface[m].col < surface[n].col

C6_Witness ==
    /\ ticks >= 2
    /\ LastIsFrame
    /\ last.cols >= 2 /\ last.rows >= 2
    /\ \E m, n \in 1..Len(surface) : surface[m].row < surface[n].row
    /\ \E m, n \in 1..Len(surface) :
         surface[m].row = surface[n].row /\ surface[m].col < surface[n].col

(* C7: all cells of a frame are computed from one settings value, the one
   the owner holds when the frame runs; a settings change touches no frame
   already run and shows from the next frame on *)
C7_OneSettingsPerFrame ==
    /\ [](LastIsFrame => Cardinality(last.used) = 1)
    /\ [][RenderStep /\ last'.kind = "frame" => last'.used = {gridSettings}]_vars
    /\ [][gridSettings' # gridSettings => last' = last /\ analysis' = analysis]_vars

C7_Witness ==
    /\ ticks >= 2
    /\ LastIsFrame
    /\ gridSettings # DEFAULT_SETTINGS
    /\ last.used = {gridSettings}
    /\ last.id > 1

(* C8: in every frame the pixel size is at least 2, cols and rows are the
   ceilings of the canvas size of that frame over the pixel size, the pixel
   buffer holds cols * rows samples and every visited cell lies in the grid;
   a resize changes neither the buffer nor the grid of the frame drawn *)
C8_GridFollowsSurface ==
    /\ [](LastIsFrame =>
            /\ last.pixelSize >= 2
            /\ last.pixelSize * (last.cols - 1) < last.size[1]
            /\ last.size[1] <= last.pixelSize * last.cols
            /\ last.pixelSize * (last.rows - 1) < last.size[2]
            /\ last.size[2] <= last.pixelSize * last.rows
            /\ analysis.w = last.cols /\ analysis.h = last.rows
            /\ Len(analysis.data) = 4 * last.cols * last.rows
            /\ Len(last.visited) = last.cols * last.rows
            /\ \A n \in 1..Len(last.visited) :
                 /\ last.visited[n][1] \in 0..(last.cols - 1)
                 /\ last.visited[n][2] \in 0..(last.rows - 1))
    /\ [][RenderStep /\ last'.kind = "frame" => last'.size = canvas]_vars
    /\ [][canvas' # canvas \/ container' # container =>
            last' = last /\ analysis' = analysis]_vars

C8_Witness ==
    /\ LastIsFrame
    /\ gridSettings.pixelSize = 15
    /\ last.pixelSize = 2
    /\ canvas # last.size
    /\ last.size[1] % 2 = 1
    /\ ticks >= 2

(* the cells of the frame that passed the density check, among given cells *)
KeptAmong(frame, cells) == frame.kept \cap cells

CellsOf(frame) == (0..(frame.cols - 1)) \X (0..(frame.rows - 1))

(* C10: two frames drawn with the same density take the same keep/skip
   decision for every cell they share, whatever the time, audio level, pixel
   values, grid and other settings of the two frames *)
C10_GateDependsOnCellAndDensity ==
    [][(RenderStep /\ last.kind = "frame" /\ last'.kind = "frame"
          /\ \A s \in last.used : s.density = gridSettings.density) =>
         KeptAmong(last', CellsOf(last)) = KeptAmong(last, CellsOf(last'))]_vars

C10_Witness ==
    /\ ticks >= 2
    /\ LastIsFrame
    /\ gridSettings.density = 50
    /\ last.sum > 0
    /\ last.kept # {}
    /\ last.kept # CellsOf(last)

(* what a draw command puts on the surface: the position, the size, the
   glyph and font of a text, the colour painted with, and the blur with its
   colour when the radius is not 0 *)
Shown(cmd) ==
    [op |-> cmd.op, x |-> cmd.x, y |-> cmd.y, size |-> cmd.size,
     glyph |-> cmd.glyph,
     font |-> IF cmd.op = "fillText" THEN cmd.font ELSE 0,
     colour |-> IF cmd.op = "stroke" THEN cmd.stroke ELSE cmd.fill,
     lineWidth |-> IF cmd.op = "stroke" THEN cmd.lineWidth ELSE 0,
     blur |-> cmd.blur,
     blurColor |-> IF cmd.blur > 0 THEN cmd.blurColor ELSE NoColor]

ShownAll(cmds) == [n \in 1..Len(cmds) |-> Shown(cmds[n])]

GlyphsOf(cmds) == [n \in 1..Len(cmds) |-> cmds[n].glyph]

WithoutGlyphs(cmds) == [n \in 1..Len(cmds) |-> [Shown(cmds[n]) EXCEPT !.glyph = 0]]

(* a step in which a frame is drawn from the inputs of the frame before it:
   equal settings, pixel buffer, surface size, elapsed time and audio level *)
SameFrameAgain ==
    /\ RenderStep
    /\ last.kind = "frame" /\ last'.kind = "frame"
    /\ last'.used = last.used
    /\ analysis' = analysis
    /\ last'.size = last.size
    /\ last'.elapsed = last.elapsed
    /\ last'.sum = last.sum

(* none, wave or ripple, and geometric only with beat <= 0.2 *)
Repeatable(s, sum) ==
    /\ s.animationMode \in {"none", "wave", "ripple"}
    /\ s.shape = "geometric" => ~BeatOver(sum, 2, 10)

(* C11 as claimed: for every shape the frame drawn again emits the same
   commands *)
C11_SameInputsSameCommands ==
    [][(SameFrameAgain /\ Repeatable(gridSettings, last.sum)) =>
          ShownAll(last'.cmds) = ShownAll(last.cmds)]_vars

(* C11: a frame drawn again from equal settings, pixel buffer, surface size,
   elapsed time and audio level emits the same sequence of draw commands
   (positions, sizes, colours, blur, fonts) whatever was drawn before and
   whatever the callback time, and the same glyphs for every shape but
   matrix *)
C11_SameCommandsButMatrixGlyphs ==
    [][(SameFrameAgain /\ Repeatable(gridSettings, last.sum)) =>
          /\ WithoutGlyphs(last'.cmds) = WithoutGlyphs(last.cmds)
          /\ gridSettings.shape # "matrix" => GlyphsOf(last'.cmds) = GlyphsOf(last.cmds)]_vars

(* the second frame, drawn by a second loop that started when the first
   frame was drawn: both frames have the same elapsed time *)
C11_Witness ==
    /\ ticks = 2
    /\ LastIsFrame
    /\ last.id = 2
    /\ 2 * last.elapsed = last.time
    /\ loop.startTime = last.elapsed
    /\ gridSettings.animationMode = "wave"
    /\ gridSettings.shape = "geometric"
    /\ last.cmds # <<>>

(* the frame last drawn, as it is drawn from the settings s on a context c *)
Redrawn(s, c) ==
    LET fc == [s |-> s, w |-> last.size[1], h |-> last.size[2],
               pixelSize |-> PixelSize(s),
               cols |-> GridCols(last.size[1], PixelSize(s)),
               rows |-> GridRows(last.size[2], PixelSize(s)),
               data |-> analysis.data, elapsed |-> last.elapsed,
               time |-> last.time, sum |-> last.sum, rs |-> last.rs]
    IN  Iterate(fc, 0, [cmds |-> <<>>, ctx |-> FrameCtx(fc, c), calls |-> 0,
                        visited |-> <<>>, used |-> {}, kept |-> {}, effective |-> {}])

RowMajor(cols, rows) ==
    [n \in 1..(cols * rows) |-> <<(n - 1) % cols, (n - 1) \div cols>>]

(* C12: with a density above 1 the frame's draw commands are those of the
   same frame with density 1.0, the gate keeping every cell; and with any
   density the loop visits every index of the buffer once, in order *)
C12_DensityAboveOneAsOne ==
    LastIsFrame =>
        /\ last.visited = RowMajor(last.cols, last.rows)
        /\ Len(analysis.data) = Stride * Len(last.visited)
        /\ gridSettings.density > 100 =>
              /\ last.kept = FrameCells
              /\ last.cmds = Redrawn([gridSettings EXCEPT !.density = 100], DefaultCtx).cmds

(* a frame with density 1.5 on cells that a density of 0.5 would skip *)
C12_Witness ==
    /\ LastIsFrame
    /\ gridSettings.density = 150
    /\ \E cell \in FrameCells : RandomVal(cell[1], cell[2]) > 500000
    /\ Len(last.cmds) >= 4

(* the size a command of the shape has without audioSizeBoost, and the font
   of a text without beat, for a pixel size ps in px *)
SilentSize(shape, ps) ==
    CASE shape = "square" -> ps * 800 - 2 * Milli
      [] shape = "cross" -> (ps * 800) \div 3
      [] shape = "circle" -> (ps * 800 * 2) \div 5
      [] OTHER -> 0

SilentFont(shape, ps) == IF IsTextShape(shape) THEN Max2(4 * Milli, ps * 900) ELSE 0

(* C13: the audio level of a frame is read in that frame: it lies in [0, 1],
   and without an analyser it is 0 whatever the frame before had, so that
   effectiveThreshold is threshold, the blur is settings.glow and no size is
   boosted *)
C13_LevelReadEachFrame ==
    [][(RenderStep /\ last'.kind = "frame") =>
          /\ last'.sum \in 0..LevelDen
          /\ ~analyser =>
                /\ last'.sum = 0
                /\ Beat(last'.sum) = 0
                /\ last'.effective \subseteq {gridSettings.threshold * LevelDen}
                /\ \A n \in 1..Len(last'.cmds) :
                     /\ last'.cmds[n].blur = gridSettings.glow * Milli
                     /\ last'.cmds[n].size = SilentSize(gridSettings.shape, last'.pixelSize)
                     /\ last'.cmds[n].font = SilentFont(gridSettings.shape, last'.pixelSize)]_vars

(* a silent frame drawn with glow after the microphone was switched off *)
C13_Witness ==
    /\ ticks >= 2
    /\ LastIsFrame
    /\ ~analyser
    /\ last.sum = 0
    /\ gridSettings.glow > 0
    /\ last.cmds # <<>>
    /\ ctx.shadowBlur = gridSettings.glow * Milli

(* glow = settings.glow + 20 * audioLevel of the frame last drawn, in 1/1000 px *)
GlowOfFrame == gridSettings.glow * Milli + (20 * Milli * last.sum) \div LevelDen

(* C14: every draw command of a frame carries a blur of radius glow in the
   fill colour of its own cell when glow > 0, and a blur of radius 0 when
   glow <= 0, whatever blur an earlier cell or frame left in the context *)
C14_BlurIsTheCellsOwn ==
    LastIsFrame =>
        \A n \in 1..Len(last.cmds) :
            LET cmd == last.cmds[n]
                px  == Sample(<<cmd.col, cmd.row>>)
            IN  /\ cmd.fill = FillStyle(gridSettings, last.sum, px[1], px[2], px[3])
                /\ IF GlowOfFrame > 0
                   THEN cmd.blur = GlowOfFrame /\ cmd.blurColor = cmd.fill
                   ELSE cmd.blur = 0

(* a frame without glow drawn after a frame that glowed: the context still
   holds the blur colour of that frame *)
C14_Witness ==
    /\ ticks >= 2
    /\ LastIsFrame
    /\ GlowOfFrame = 0
    /\ last.cmds # <<>>
    /\ ctx.shadowColor # NoColor
    /\ ctx.shadowBlur = 0

(* a frame whose cells glow in different colours *)
C14_WitnessGlow ==
    /\ LastIsFrame
    /\ GlowOfFrame > 0
    /\ \E m, n \in 1..Len(last.cmds) : last.cmds[m].blurColor # last.cmds[n].blurColor

(* C15: in colour mode matrix the hue of every emitted fill colour is
   (120 + hueShift) mod 360 and its saturation 100, whatever the pixel and
   the beat *)
C15_MatrixHue ==
    (LastIsFrame /\ gridSettings.colorMode = "matrix") =>
        \A n \in 1..Len(last.cmds) :
            /\ last.cmds[n].fill.h = ((120 + gridSettings.hueShift) % 360) * Milli
            /\ last.cmds[n].fill.s = 100 * Milli

(* a red video under a beat, drawn with a hue shift that wraps to 1 degree *)
C15_Witness ==
    /\ LastIsFrame
    /\ gridSettings.colorMode = "matrix"
    /\ gridSettings.hueShift = 241
    /\ last.sum > 0
    /\ \E cell \in FrameCells : Sample(cell) = <<255, 0, 0>>
    /\ \E n \in 1..Len(last.cmds) : last.cmds[n].fill.h = Milli

Converted == probe.hsl # NoColor

(* C16: rgbToHsl gives L = 100 and S = 0 for white and L = 0 for black, S = 0
   and H = 0 for every grey, and for every input H in [0, 360), S in
   [0, 100] and L in [0, 100] *)
C16_HslRanges ==
    Converted =>
        /\ probe.hsl.h >= 0 /\ probe.hsl.h < 360 * Milli
        /\ probe.hsl.s >= 0 /\ probe.hsl.s <= 100 * Milli
        /\ probe.hsl.l >= 0 /\ probe.hsl.l <= 100 * Milli
        /\ (probe.rgb[1] = probe.rgb[2] /\ probe.rgb[2] = probe.rgb[3]) =>
              probe.hsl.s = 0 /\ probe.hsl.h = 0
        /\ probe.rgb = <<255, 255, 255>> => probe.hsl.l = 100 * Milli /\ probe.hsl.s = 0
        /\ probe.rgb = <<0, 0, 0>> => probe.hsl.l = 0

(* a red with a little more blue than green: the hue is just below 360 *)
C16_Witness ==
    /\ Converted
    /\ probe.rgb = <<255, 0, 1>>
    /\ probe.hsl.h > 359 * Milli
    /\ probe.hsl.s = 100 * Milli

(* white converted *)
C16_WitnessWhite == Converted /\ probe.rgb = <<255, 255, 255>> /\ probe.hsl.l = 100 * Milli

(* the commands of the frame last drawn whose cell has its centre at the
   centre of the surface *)
CentreCommands ==
    {n \in 1..Len(last.cmds) :
        /\ (2 * last.cmds[n].col + 1) * last.pixelSize = last.size[1]
        /\ (2 * last.cmds[n].row + 1) * last.pixelSize = last.size[2]}

RippleFrame == LastIsFrame /\ gridSettings.animationMode = "ripple"

(* offset = sin(0.02 * 0 - 1.5 * audioTime) * (15 + 15 * beat) at distance 0,
   with audioTime = elapsed * (1 + 2 * beat), in 1/1000 px *)
OffsetAtCentre ==
    LET audioTime == (last.elapsed * (BeatDen + 2 * Beat(last.sum))) \div BeatDen
    IN  (Sin(0 - (3 * audioTime) \div 2) * (15 * Milli + TimesBeat(15 * Milli, last.sum)))
        \div Milli

(* C17 as claimed: the cell at the centre is drawn at the centre *)
C17_CentreNotDisplaced ==
    RippleFrame =>
        \A n \in CentreCommands :
            /\ last.cmds[n].x = last.size[1] * 500
            /\ last.cmds[n].y = last.size[2] * 500

(* C17: in ripple mode the cell at the exact centre of the surface keeps its
   y and is moved along x by offset = sin(-1.5 * audioTime) * (15 + 15 * beat),
   the angle atan2(0, 0) being 0 *)
C17_CentreMovedAlongX ==
    RippleFrame =>
        \A n \in CentreCommands :
            /\ last.cmds[n].x = last.size[1] * 500 + OffsetAtCentre
            /\ last.cmds[n].y = last.size[2] * 500

(* the centre cell of a 3 x 3 grid drawn more than 1 px off the centre *)
C17_Witness ==
    /\ RippleFrame
    /\ last.cols = 3 /\ last.rows = 3
    /\ \E n \in CentreCommands :
         /\ last.cmds[n].col = 1 /\ last.cmds[n].row = 1
         /\ Abs(last.cmds[n].x - last.size[1] * 500) > Milli
         /\ last.cmds[n].y = last.size[2] * 500

BlocksFrame == LastIsFrame /\ gridSettings.shape = "blocks"

(* R + G + B of the pixel of a cell: three times its brightness *)
SumAt(cell) == Sample(cell)[1] + Sample(cell)[2] + Sample(cell)[3]

GlyphsAt(cell) == {last.cmds[n].glyph : n \in {m \in 1..Len(last.cmds) :
                      last.cmds[m].col = cell[1] /\ last.cmds[m].row = cell[2]}}

(* C18 as claimed: a cell of brightness 0 yields the glyph 0, a cell of
   brightness 255 at beat 0 the glyph 4 *)
C18_BlackGlyphZero ==
    BlocksFrame =>
        \A cell \in FrameCells :
            /\ SumAt(cell) = 0 => GlyphsAt(cell) = {0}
            /\ (SumAt(cell) = 3 * 255 /\ last.sum = 0) => GlyphsAt(cell) = {4}

(* C18: with shape blocks a cell of brightness 0 is not drawn at all, a drawn
   cell of brightness below 63.75 at beat 0 yields the glyph 0, and a cell of
   brightness 255 at beat 0 the glyph 4 = tableLen - 1 *)
C18_DarkestDrawnGlyphZero ==
    BlocksFrame =>
        \A cell \in FrameCells :
            /\ SumAt(cell) = 0 => GlyphsAt(cell) = {}
            /\ (SumAt(cell) > 0 /\ 4 * SumAt(cell) < 3 * 255 /\ last.sum = 0
                  /\ gridSettings.threshold = 0) => GlyphsAt(cell) = {0}
            /\ (SumAt(cell) = 3 * 255 /\ last.sum = 0) => GlyphsAt(cell) = {4}

(* a black video drawn with blocks: no glyph *)
C18_Witness ==
    /\ BlocksFrame
    /\ \A cell \in FrameCells : SumAt(cell) = 0
    /\ last.cmds = <<>>
    /\ last.cols = 3

(* a white and a nearly black video drawn with blocks in silence *)
C18_WitnessWhite ==
    /\ BlocksFrame
    /\ last.sum = 0
    /\ \E cell \in FrameCells : SumAt(cell) = 3 * 255 /\ GlyphsAt(cell) = {4}

C18_WitnessDark ==
    /\ BlocksFrame
    /\ last.sum = 0
    /\ \E cell \in FrameCells : SumAt(cell) = 3 * 63 /\ GlyphsAt(cell) = {0}

CharFrame == LastIsFrame /\ gridSettings.shape = "char"

(* floor((brightness / 255) * 2) of the pixel of a cell *)
BinaryIndex(cell) == (SumAt(cell) * 2) \div (3 * 255)

(* C19 as claimed: the glyph of a drawn cell is the entry of the table
   "1", "0" at index floor((brightness / 255) * 2) *)
C19_GlyphAtFloorIndex ==
    CharFrame =>
        \A cell \in FrameCells :
            \A glyph \in GlyphsAt(cell) : glyph = BinaryIndex(cell) /\ glyph \in 0..1

(* C19: with shape char the glyph of a drawn cell is the entry at index
   floor((brightness / 255) * 2) mod 2: entry 0 below 127.5, entry 1 from
   127.5 on, and entry 0 again at brightness 255 *)
C19_GlyphAtFloorIndexWrapped ==
    CharFrame =>
        \A cell \in FrameCells :
            \A glyph \in GlyphsAt(cell) :
                /\ glyph = BinaryIndex(cell) % 2
                /\ glyph = IF SumAt(cell) = 3 * 255 THEN 0
                           ELSE IF 2 * SumAt(cell) >= 3 * 255 THEN 1 ELSE 0

(* a white video drawn with the first entry of the table *)
C19_Witness ==
    /\ CharFrame
    /\ \E cell \in FrameCells :
         SumAt(cell) = 3 * 255 /\ BinaryIndex(cell) = 2 /\ GlyphsAt(cell) = {0}

(* greys on both sides of 127.5 *)
C19_WitnessGrey ==
    /\ CharFrame
    /\ \E cell \in FrameCells : SumAt(cell) \in {3 * 127, 3 * 128}
                                 /\ GlyphsAt(cell) = {BinaryIndex(cell)}

TextFrame == LastIsFrame /\ IsTextShape(gridSettings.shape)

(* audioSizeBoost = (brightness / 255) * beat * pixelSize of a cell, in
   1/1000 px *)
BoostAt(cell) ==
    (SumAt(cell) * Beat(last.sum) * PixelSize(gridSettings) * Milli) \div (3 * 255 * BeatDen)

FontsAt(cell) == {last.cmds[n].font : n \in {m \in 1..Len(last.cmds) :
                     last.cmds[m].col = cell[1] /\ last.cmds[m].row = cell[2]}}

(* C20: with a glyph shape the font size of the glyph of a cell is
   pixelSize * 1.0 + audioSizeBoost of that cell, so that at beat > 0 a
   brighter cell has a larger glyph than a darker cell of the same frame *)
C20_FontIsRenderSize ==
    TextFrame =>
        /\ \A cell \in FrameCells :
              \A font \in FontsAt(cell) :
                  font = PixelSize(gridSettings) * Milli + BoostAt(cell)
        /\ Beat(last.sum) > 0 =>
              \A dark, bright \in FrameCells :
                  SumAt(dark) < SumAt(bright) =>
                      \A small \in FontsAt(dark), large \in FontsAt(bright) :
                          small < large

(* floor(2 * beat) where beat > 0.1, else 0: the bump of the loudness k *)
BumpOf(k) == IF 10 * k * k * k > 512 THEN (2 * k * k * k) \div 512 ELSE 0

(* C21: the glyph index of blocks and ascii is floor((brightness / 255) *
   (tableLen - 1)), plus floor(2 * beat) only when beat > 0.1 and then
   clamped to tableLen - 1; it lies in 0 .. tableLen - 1, and it does not
   decrease when the brightness grows at the same beat nor when the beat
   grows at the same brightness *)
C21_RampIndexMonotone ==
    [][LET len == CharsetLen(probe'.shape)
           base == FloorOfBrightness(probe'.sum, len - 1)
       IN  /\ probe'.index \in 0..(len - 1)
           /\ probe'.index = IF BumpOf(probe'.k) > 0
                             THEN Min2(len - 1, base + BumpOf(probe'.k)) ELSE base
           /\ probe.index # NoIndex =>
                 /\ probe'.sum >= probe.sum /\ probe'.k >= probe.k
                 /\ probe'.index >= probe.index]_vars

(* a white pixel at full beat: the bump is clamped *)
C21_Witness ==
    /\ probe.index # NoIndex
    /\ probe.shape = "ascii" /\ probe.sum = 3 * 255 /\ probe.k = 8 /\ probe.index = 9

(* a grey pixel pushed up by one at beat 0.67 *)
C21_WitnessBump ==
    /\ probe.index # NoIndex
    /\ probe.shape = "blocks" /\ probe.sum = 3 * 128 /\ probe.k = 7 /\ probe.index = 3

(* C23: a canvas has at most one render tick pending, and it is the tick of
   the loop of the latest effect run, under the handle animationFrameRef
   holds and with the props of now; an effect re-run leaves the new loop's
   first request alone in the queue, under a handle the old loop never had;
   and a frame is drawn by the loop of the latest effect run with its
   settings *)
C23_OnePendingTick ==
    /\ [](/\ Cardinality(pending) <= 1
          /\ \A q \in pending :
                /\ q.handle = animationFrameRef
                /\ q.id = loop.id
                /\ q.settings = gridSettings /\ q.isPlaying = isPlaying)
    /\ [][loop'.id # loop.id =>
            /\ pending' = {loop'}
            /\ loop'.handle \notin Handles(pending)
            /\ ticks' = ticks]_vars
    /\ [][RenderStep /\ last'.kind = "frame" =>
            last'.id = loop.id /\ last'.used = {loop.settings}]_vars

(* paused after a frame of the first loop: the tick pending is the second
   loop's *)
C23_Witness ==
    /\ loop.id = 2
    /\ ~isPlaying
    /\ LastIsFrame /\ last.id = 1
    /\ Cardinality(pending) = 1
    /\ \A q \in pending : q.id = 2 /\ q.handle > last.handle

(* the layout the claim gives a face count *)
LayoutOfFaces(n) ==
    CASE n <= 1 -> [rows |-> 1, cols |-> 1]
      [] n = 2  -> [rows |-> 1, cols |-> 2]
      [] n \in 3..4 -> [rows |-> 2, cols |-> 2]
      [] OTHER ->
           LET cols == CHOOSE c \in 1..n : c * c >= n /\ (c - 1) * (c - 1) < n
               rows == CHOOSE r \in 1..n : r * cols >= n /\ (r - 1) * cols < n
           IN  [rows |-> rows, cols |-> cols]

(* C22: a detection of n faces sets the layout 1x1 for 0 or 1 faces, 1 row
   by 2 columns for 2, 2x2 for 3 and 4, and cols = ceil(sqrt(n)), rows =
   ceil(n / cols) for n > 2; the grid has at least max(1, n) panels and no
   more rows than columns; and the layout object is replaced exactly when
   rows or cols differ from those it had *)
C22_LayoutOfFaceCount ==
    [][appLast'.op = "Detect" =>
         LET n == appLast'.count
         IN  /\ layout' = LayoutOfFaces(n)
             /\ layout'.rows * layout'.cols >= Max2(1, n)
             /\ layout'.rows <= layout'.cols
             /\ appLast'.replaced <=> layout' # layout
             /\ ~appLast'.replaced => panelSettings' = panelSettings]_vars

(* five faces: two rows of three *)
C22_Witness ==
    /\ appLast.op = "Detect" /\ appLast.count = 5 /\ appLast.replaced
    /\ layout = [rows |-> 2, cols |-> 3]
    /\ Len(panelSettings) = 6

(* three faces seen on a 2x2 grid: the layout stays the object it was *)
C22_WitnessKept ==
    /\ appLast.op = "Detect" /\ appLast.count = 3 /\ ~appLast.replaced
    /\ layout = [rows |-> 2, cols |-> 2]

(* C24: a cell whose pixel is pure black gets no draw command, whatever the
   threshold (0 included), the audio level, the density and the shape: it is
   drawn only when its brightness is strictly above effectiveThreshold, which
   is never negative *)
C24_BlackCellNeverDrawn ==
    LastIsFrame =>
        /\ ThreeThresholds >= 0
        /\ \A cell \in FrameCells : IsBlack(cell) => CommandsAt(cell) = {}

(* threshold 0 at full audio level: the other cells are drawn, the black one
   is not *)
C24_Witness ==
    /\ LastIsFrame
    /\ gridSettings.threshold = 0 /\ gridSettings.density >= 100 /\ last.sum = 32640
    /\ \E cell \in FrameCells : IsBlack(cell)
    /\ Len(surface) > 0

(* C25: the auto-sequence layout and the face-grid mode are never both on,
   and choosing a grid size or a screen effect turns both off *)
C25_ModesExclusive ==
    /\ [](~(isAutoLayout /\ isFaceGridMode))
    /\ [][handleGridDimChange \/ onScreenEffectChange =>
            ~isAutoLayout' /\ ~isFaceGridMode']_vars
    /\ [][isFaceGridMode' /\ ~isFaceGridMode => ~isAutoLayout']_vars
    /\ [][isAutoLayout' /\ ~isAutoLayout => ~isFaceGridMode']_vars

(* the face grid switched on while the sequence ran on its 8x8 grid *)
C25_Witness ==
    /\ isFaceGridMode /\ ~isAutoLayout
    /\ layout = [rows |-> 8, cols |-> 8]
    /\ ~sequencer

(* the sequence switched on while the face grid was detecting *)
C25_WitnessAuto ==
    /\ isAutoLayout /\ ~isFaceGridMode
    /\ mediaStream /\ faceDetector /\ ~faceInterval

(* C26: the array of per-panel settings has layout.rows * layout.cols
   entries; a step that shrinks it keeps its first entries as they were, a
   step that grows it keeps every entry as it was and appends, and a change
   of the layout changes no entry that stays *)
C26_OneEntryPerPanel ==
    /\ [](Len(panelSettings) = layout.rows * layout.cols)
    /\ [][/\ Len(panelSettings') < Len(panelSettings) =>
               panelSettings' = SubSeq(panelSettings, 1, Len(panelSettings'))
          /\ Len(panelSettings') > Len(panelSettings) =>
               SubSeq(panelSettings', 1, Len(panelSettings)) = panelSettings
          /\ layout' # layout =>
               \A i \in 1..Min2(Len(panelSettings), Len(panelSettings')) :
                  panelSettings'[i] = panelSettings[i]]_vars

(* a single panel left of a grid whose settings were changed, after a Reset
   of a larger grid *)
C26_Witness ==
    /\ layout = [rows |-> 1, cols |-> 1]
    /\ Len(panelSettings) = 1
    /\ panelSettings[1].density = 50
    /\ panelSettings[1].offsetX = Offset(2, 1)

(* 64 panels grown from 6 *)
C26_WitnessGrown ==
    /\ Len(panelSettings) = 64
    /\ panelSettings[6].hueShift = 300 * Milli
    /\ panelSettings[7].hueShift = 33750

(* C27: layoutStage stays within 0..6; while auto-layout is on a tick of
   the sequencer advances it by one modulo 7; while auto-layout is off the
   stage is 4, no sequencer runs and the stage does not change *)
C27_StageCycle ==
    /\ [](layoutStage \in 0..6)
    /\ [](~isAutoLayout => layoutStage = 4 /\ ~sequencer)
    /\ [](isAutoLayout => sequencer)
    /\ [][SequencerTick => isAutoLayout /\ layoutStage' = (layoutStage + 1) % 7]_vars
    /\ [][layoutStage' # layoutStage =>
            /\ isAutoLayout
            /\ \/ isAutoLayout' /\ layoutStage' = (layoutStage + 1) % 7
               \/ ~isAutoLayout' /\ layoutStage' = 4]_vars

(* the sequence has gone from 4 over 5, 6 and 0 to 3, with a seed drawn at
   stage 6 *)
C27_Witness ==
    /\ isAutoLayout
    /\ layoutStage = 3
    /\ layoutSeed = Random(2, 1)

(* switched off at stage 6: the stage is 4 again *)
C27_WitnessOff ==
    /\ ~isAutoLayout
    /\ layoutStage = 4
    /\ layoutSeed = Random(2, 1)

====
